---- MODULE Spec2Model ----
(***************************************************************************)
(* Model of the /api/predict request pipeline of the student-risk          *)
(* application (src/app/routes.py): artifact loading, the 503 gate,        *)
(* request validation, categorical encoding, classification, grade         *)
(* estimation, the faculty alert, explanation, advice composition and the  *)
(* response.                                                               *)
(*                                                                         *)
(* Python values are records [t, n, d, s]: t is the type tag ("none",      *)
(* "int", "float", "inf", "nan", "str", "list"), n/d the number (d = 1 for *)
(* an int) and s the characters of a string, one per element.              *)
(***************************************************************************)
EXTENDS Integers, Sequences, FiniteSets, TLC

\* ------------------------------------------------------------------------
\* Bounds and program constants
\* ------------------------------------------------------------------------

\* class confidences are the fractions k / ConfScale, k \in 0..ConfScale
ConfScale == 2

\* validate_student_data: len(value) > 100
MaxFieldLen == 100

\* validate_student_data: len(custom) > 500
MaxPromptLen == 500

\* generate_mock_advice: custom_prompt_text[:100]
MockPromptCut == 100

\* get_shap_feature_importance: sorted(...)[:5]
TopN == 5

\* a contribution of the explainer is one of -ShapScale..ShapScale hundredths
ShapScale == 2

\* ------------------------------------------------------------------------
\* Python values
\* ------------------------------------------------------------------------

NoneV == [t |-> "none", n |-> 0, d |-> 1, s |-> <<>>]

IntV(k) == [t |-> "int", n |-> k, d |-> 1, s |-> <<>>]

FloatV(k, den) == [t |-> "float", n |-> k, d |-> den, s |-> <<>>]

InfV == [t |-> "inf", n |-> 0, d |-> 1, s |-> <<>>]

NanV == [t |-> "nan", n |-> 0, d |-> 1, s |-> <<>>]

ListV == [t |-> "list", n |-> 0, d |-> 1, s |-> <<>>]

StrV(chars) == [t |-> "str", n |-> 0, d |-> 1, s |-> chars]

Rep(c, k) == [i \in 1..k |-> c]

\* ------------------------------------------------------------------------
\* String primitives (str.strip, str.isalnum, str.replace, int(), float())
\* ------------------------------------------------------------------------

Digits == <<"0", "1", "2", "3", "4", "5", "6", "7", "8", "9">>

DigitSet == {Digits[i] : i \in 1..10}

LetterSet ==
    {"a","b","c","d","e","f","g","h","i","j","k","l","m","n","o","p","q",
     "r","s","t","u","v","w","x","y","z",
     "A","B","C","D","E","F","G","H","I","J","K","L","M","N","O","P","Q",
     "R","S","T","U","V","W","X","Y","Z"}

SpaceSet == {" ", "\t", "\n"}

DigitVal(c) == (CHOOSE i \in 1..10 : Digits[i] = c) - 1

RECURSIVE LStrip(_)
LStrip(s) ==
    IF s # <<>> /\ Head(s) \in SpaceSet THEN LStrip(Tail(s)) ELSE s

RECURSIVE RStrip(_)
RStrip(s) ==
    IF s # <<>> /\ s[Len(s)] \in SpaceSet
    THEN RStrip(SubSeq(s, 1, Len(s) - 1))
    ELSE s

Strip(s) == RStrip(LStrip(s))

IsAlnum(s) == s # <<>> /\ \A i \in 1..Len(s) : s[i] \in DigitSet \cup LetterSet

Replace(s, c) == SelectSeq(s, LAMBDA x : x # c)

AllDigits(s) == s # <<>> /\ \A i \in 1..Len(s) : s[i] \in DigitSet

RECURSIVE DigitsToNat(_)
DigitsToNat(s) ==
    IF s = <<>> THEN 0
    ELSE 10 * DigitsToNat(SubSeq(s, 1, Len(s) - 1)) + DigitVal(s[Len(s)])

RECURSIVE Pow10(_)
Pow10(k) == IF k = 0 THEN 1 ELSE 10 * Pow10(k - 1)

RECURSIVE NatToDigits(_)
NatToDigits(k) ==
    IF k < 10 THEN <<Digits[k + 1]>>
    ELSE NatToDigits(k \div 10) \o <<Digits[(k % 10) + 1]>>

Lower(c) ==
    CASE c = "I" -> "i" [] c = "N" -> "n" [] c = "F" -> "f"
      [] c = "A" -> "a" [] c = "T" -> "t" [] c = "Y" -> "y"
      [] OTHER -> c

LowerSeq(s) == [i \in 1..Len(s) |-> Lower(s[i])]

HasSign(s) == s # <<>> /\ Head(s) \in {"+", "-"}

Unsigned(s) == IF HasSign(s) THEN Tail(s) ELSE s

SignOf(s) == IF s # <<>> /\ Head(s) = "-" THEN -1 ELSE 1

DotPos(s) == IF \E i \in 1..Len(s) : s[i] = "."
             THEN CHOOSE i \in 1..Len(s) : s[i] = "." /\ \A j \in 1..(i-1) : s[j] # "."
             ELSE 0

\* Result of a conversion: exc is "none" or the Python exception raised.
Conv(exc, val) == [exc |-> exc, val |-> val]

\* int(str) once the surrounding whitespace is stripped: an optional sign,
\* then decimal digits
ParseIntStripped(r) ==
    IF AllDigits(Unsigned(r))
    THEN Conv("none", IntV(SignOf(r) * DigitsToNat(Unsigned(r))))
    ELSE Conv("ValueError", NoneV)

\* int(str): surrounding whitespace, an optional sign, decimal digits.
ParseInt(s) == ParseIntStripped(Strip(s))

\* digits with at most one decimal point: ip before the point, fp after it
ParseDecimal(sign, ip, fp) ==
    IF /\ ip \o fp # <<>>
       /\ \A i \in 1..Len(ip) : ip[i] \in DigitSet
       /\ \A i \in 1..Len(fp) : fp[i] \in DigitSet
    THEN Conv("none", FloatV(sign * DigitsToNat(ip \o fp), Pow10(Len(fp))))
    ELSE Conv("ValueError", NoneV)

\* the unsigned literal: "inf", "infinity", "nan" in any case, or a decimal
\* with its point at position p (0 when it has none)
ParseFloatBody(sign, body, p) ==
    IF LowerSeq(body) \in {<<"i","n","f">>, <<"i","n","f","i","n","i","t","y">>}
    THEN Conv("none", InfV)
    ELSE IF LowerSeq(body) = <<"n","a","n">>
    THEN Conv("none", NanV)
    ELSE ParseDecimal(sign,
                      IF p = 0 THEN body ELSE SubSeq(body, 1, p - 1),
                      IF p = 0 THEN <<>> ELSE SubSeq(body, p + 1, Len(body)))

ParseFloatStripped(r) == ParseFloatBody(SignOf(r), Unsigned(r), DotPos(Unsigned(r)))

\* float(str): surrounding whitespace, an optional sign, then "inf",
\* "infinity", "nan", or digits with at most one decimal point.
ParseFloat(s) == ParseFloatStripped(Strip(s))

\* integer part of n/d, truncated toward zero (int(float))
Trunc(n, d) == IF n >= 0 THEN n \div d ELSE -((-n) \div d)

\* int(v)
PyInt(v) ==
    CASE v.t = "str"   -> ParseInt(v.s)
      [] v.t = "int"   -> Conv("none", v)
      [] v.t = "float" -> Conv("none", IntV(Trunc(v.n, v.d)))
      [] v.t = "inf"   -> Conv("OverflowError", NoneV)
      [] v.t = "nan"   -> Conv("ValueError", NoneV)
      [] OTHER         -> Conv("TypeError", NoneV)

\* float(v)
PyFloat(v) ==
    CASE v.t = "str"   -> ParseFloat(v.s)
      [] v.t = "int"   -> Conv("none", FloatV(v.n, 1))
      [] v.t \in {"float", "inf", "nan"} -> Conv("none", v)
      [] OTHER         -> Conv("TypeError", NoneV)

\* lo <= v <= hi for a float value v (comparisons with nan are False)
FloatBetween(v, lo, hi) ==
    v.t = "float" /\ lo * v.d <= v.n /\ v.n <= hi * v.d

\* str(v)
PyStr(v) ==
    CASE v.t = "str"   -> v.s
      [] v.t = "int"   -> (IF v.n < 0 THEN <<"-">> ELSE <<>>)
                           \o NatToDigits(IF v.n < 0 THEN -v.n ELSE v.n)
      [] v.t = "float" -> (IF v.n < 0 THEN <<"-">> ELSE <<>>)
                           \o NatToDigits((IF v.n < 0 THEN -v.n ELSE v.n) \div v.d)
                           \o <<".">>
                           \o NatToDigits((IF v.n < 0 THEN -v.n ELSE v.n) % v.d)
      [] v.t = "inf"   -> <<"i","n","f">>
      [] v.t = "nan"   -> <<"n","a","n">>
      [] v.t = "none"  -> <<"N","o","n","e">>
      [] OTHER         -> <<"[","]">>

\* bleach.clean(text, tags=[], strip=True): every <...> tag is removed and a
\* "<" with no closing ">" is escaped.
RECURSIVE BleachClean(_)
BleachClean(s) ==
    LET special == {i \in 1..Len(s) : s[i] \in {"<", ">"}}
        p       == CHOOSE i \in special : \A j \in special : i <= j
        closers == {i \in (p + 1)..Len(s) : s[i] = ">"}
        e       == CHOOSE i \in closers : \A j \in closers : i <= j
    IN  IF special = {} THEN s
        ELSE IF s[p] = ">"
        THEN SubSeq(s, 1, p - 1) \o <<"&","g","t",";">>
                 \o BleachClean(SubSeq(s, p + 1, Len(s)))
        ELSE IF closers = {}
        THEN SubSeq(s, 1, p - 1) \o <<"&","l","t",";">>
                 \o BleachClean(SubSeq(s, p + 1, Len(s)))
        ELSE SubSeq(s, 1, p - 1) \o BleachClean(SubSeq(s, e + 1, Len(s)))

\* ------------------------------------------------------------------------
\* validate_student_data
\* ------------------------------------------------------------------------

required == <<"G1", "G2", "age", "school", "sex">>

string_fields == <<"school", "sex">>

\* Outcome of validate_student_data: the exception raised ("none" when it
\* returns True), its message, and the request data as the call leaves it.
VResult(exc, msg, obj) == [exc |-> exc, msg |-> msg, obj |-> obj]

IsEmptyValue(v) == v.t = "none" \/ (v.t = "str" /\ Strip(v.s) = <<>>)

\* position of the first iteration of a loop that raises, 0 when none does
FirstIdx(raises) ==
    IF \E i \in 1..Len(raises) : raises[i]
    THEN CHOOSE i \in 1..Len(raises) : raises[i] /\ \A j \in 1..(i - 1) : ~raises[j]
    ELSE 0

\* the range checks of the try block, on the converted age, G1 and G2;
\* yields the exception raised inside the block and its text
NumericChecks(age, g1, g2) ==
    IF age.exc # "none"
    THEN [exc |-> age.exc, msg |-> <<"cannot convert age to int">>]
    ELSE IF ~(15 <= age.val.n /\ age.val.n <= 30)
    THEN [exc |-> "ValueError", msg |-> <<"Age must be between 15 and 30">>]
    ELSE IF g1.exc # "none"
    THEN [exc |-> g1.exc, msg |-> <<"could not convert G1 to float">>]
    ELSE IF g2.exc # "none"
    THEN [exc |-> g2.exc, msg |-> <<"could not convert G2 to float">>]
    ELSE IF ~(FloatBetween(g1.val, 0, 20) /\ FloatBetween(g2.val, 0, 20))
    THEN [exc |-> "ValueError", msg |-> <<"Grades must be between 0 and 20">>]
    ELSE [exc |-> "none", msg |-> <<>>]

\* the body of the try block that converts and range-checks age, G1 and G2
NumericBlock(obj) == NumericChecks(PyInt(obj["age"]), PyFloat(obj["G1"]), PyFloat(obj["G2"]))

StringValueError_length_only(value, f) ==
    IF Len(value) > MaxFieldLen
    THEN <<"Field exceeds maximum length", f>>
    ELSE <<>>

\* the two tests made on value = str(data.get(field, ''))
StringValueError(value, f) ==
    IF Len(value) > MaxFieldLen
    THEN <<"Field exceeds maximum length", f>>
    ELSE IF ~IsAlnum(Replace(Replace(value, " "), "-"))
    THEN <<"Field contains invalid characters", f>>
    ELSE <<>>

StringFieldError(obj, f) == StringValueError(PyStr(obj[f]), f)

\* the customPrompt block, custom = str(data.get('customPrompt', ''))
CheckCustomPrompt(obj, custom) ==
    IF Len(custom) > MaxPromptLen
    THEN VResult("ValueError", <<"Custom prompt exceeds maximum length (500 chars)">>, obj)
    ELSE VResult("none", <<>>, [obj EXCEPT !["customPrompt"] = StrV(BleachClean(custom))])

\* the string-field loop, badstr the first field it raises for
CheckStringFields(obj, badstr) ==
    IF badstr # 0
    THEN VResult("ValueError", StringFieldError(obj, string_fields[badstr]), obj)
    ELSE IF "customPrompt" \notin DOMAIN obj
    THEN VResult("none", <<>>, obj)
    ELSE CheckCustomPrompt(obj, PyStr(obj["customPrompt"]))

\* the numeric try block and its except clause
CheckNumeric(obj, num) ==
    IF num.exc \in {"ValueError", "TypeError"}
    THEN VResult("ValueError", <<"Invalid numeric values">> \o num.msg, obj)
    ELSE IF num.exc # "none"
    THEN VResult(num.exc, num.msg, obj)
    ELSE CheckStringFields(obj,
             FirstIdx([i \in 1..Len(string_fields) |->
                          StringFieldError(obj, string_fields[i]) # <<>>]))

\* the null/empty loop, empty the first field it raises for
CheckEmpty(obj, empty) ==
    IF empty # 0
    THEN VResult("ValueError", <<"Field cannot be empty", required[empty]>>, obj)
    ELSE CheckNumeric(obj, NumericBlock(obj))

\* the missing-fields test
CheckMissing(obj, missing) ==
    IF missing # <<>>
    THEN VResult("ValueError", <<"Missing required fields">> \o missing, obj)
    ELSE CheckEmpty(obj, FirstIdx([i \in 1..Len(required) |->
                                      IsEmptyValue(obj[required[i]])]))

validate_student_data(body) ==
    IF body.kind # "object"
    THEN VResult("TypeError", <<"argument is not iterable">>, body.obj)
    ELSE CheckMissing(body.obj, SelectSeq(required, LAMBDA f : f \notin DOMAIN body.obj))

\* ------------------------------------------------------------------------
\* The encoding table and preprocess_data_for_pipeline
\* ------------------------------------------------------------------------

categorical_cols ==
    <<"school", "sex", "address", "famsize", "Pstatus", "Mjob", "Fjob",
      "reason", "guardian", "schoolsup", "famsup", "paid", "activities",
      "nursery", "higher", "internet", "romantic">>

expected_columns ==
    <<"school", "sex", "age", "address", "famsize", "Pstatus", "Medu", "Fedu",
      "Mjob", "Fjob", "reason", "guardian", "traveltime", "studytime",
      "failures", "schoolsup", "famsup", "paid", "activities", "nursery",
      "higher", "internet", "romantic", "famrel", "freetime", "goout",
      "Dalc", "Walc", "health", "absences", "G1", "G2",
      "average_grade", "grade_change">>

Range(seq) == {seq[i] : i \in 1..Len(seq)}

YesNo == <<<<"n", "o">>, <<"y", "e", "s">>>>

Jobs == <<<<"a", "t", "_", "h", "o", "m", "e">>, <<"h", "e", "a", "l", "t", "h">>,
          <<"o", "t", "h", "e", "r">>, <<"s", "e", "r", "v", "i", "c", "e", "s">>,
          <<"t", "e", "a", "c", "h", "e", "r">>>>

\* classes_ of the encoder fitted for a categorical column: the sorted
\* distinct values of that column in the training data
EncoderClasses(col) ==
    CASE col = "school"   -> <<<<"G", "P">>, <<"M", "S">>>>
      [] col = "sex"      -> <<<<"F">>, <<"M">>>>
      [] col = "address"  -> <<<<"R">>, <<"U">>>>
      [] col = "famsize"  -> <<<<"G", "T", "3">>, <<"L", "E", "3">>>>
      [] col = "Pstatus"  -> <<<<"A">>, <<"T">>>>
      [] col \in {"Mjob", "Fjob"} -> Jobs
      [] col = "reason"   -> <<<<"c", "o", "u", "r", "s", "e">>, <<"h", "o", "m", "e">>,
                               <<"o", "t", "h", "e", "r">>,
                               <<"r", "e", "p", "u", "t", "a", "t", "i", "o", "n">>>>
      [] col = "guardian" -> <<<<"f", "a", "t", "h", "e", "r">>, <<"m", "o", "t", "h", "e", "r">>,
                               <<"o", "t", "h", "e", "r">>>>
      [] OTHER            -> YesNo

\* the columns the loaded label_encoder dictionary has an encoder for
EncoderColumns == Range(categorical_cols)

\* encoder_map.transform([raw_value])[0]: the position of the value in classes_
Transform(col, chars) ==
    (CHOOSE i \in 1..Len(EncoderClasses(col)) : EncoderClasses(col)[i] = chars) - 1

EncodeCell_default_one(col, v) ==
    IF v.t = "str" /\ v.s \in Range(EncoderClasses(col))
    THEN IntV(Transform(col, v.s))
    ELSE IntV(1)

\* one iteration of the encoding loop for a column present in the frame
EncodeCell(col, v) ==
    IF v.t = "str" /\ v.s \in Range(EncoderClasses(col))
    THEN IntV(Transform(col, v.s))
    ELSE IntV(0)

PResult(exc, row) == [exc |-> exc, row |-> row]

\* frame is the single-row DataFrame built from the request (column -> cell)
preprocess_data_for_pipeline(frame) ==
    LET encoded == [col \in DOMAIN frame |->
                       IF col \in Range(categorical_cols) /\ col \in EncoderColumns
                       THEN EncodeCell(col, frame[col])
                       ELSE frame[col]]
    IN  IF \E i \in 1..Len(expected_columns) : expected_columns[i] \notin DOMAIN frame
        THEN PResult("KeyError", <<>>)
        ELSE PResult("none", [i \in 1..Len(expected_columns) |-> encoded[expected_columns[i]]])

\* ------------------------------------------------------------------------
\* Requests: the complete record of the test fixture, and the bodies derived
\* from it by dropping or replacing fields
\* ------------------------------------------------------------------------

sample_student_data ==
    [ age |-> StrV(<<"1", "8">>),
      sex |-> StrV(<<"F">>),
      school |-> StrV(<<"G", "P">>),
      address |-> StrV(<<"U">>),
      famsize |-> StrV(<<"L", "E", "3">>),
      Pstatus |-> StrV(<<"T">>),
      Medu |-> StrV(<<"4">>),
      Fedu |-> StrV(<<"3">>),
      Mjob |-> StrV(<<"o", "t", "h", "e", "r">>),
      Fjob |-> StrV(<<"o", "t", "h", "e", "r">>),
      reason |-> StrV(<<"c", "o", "u", "r", "s", "e">>),
      guardian |-> StrV(<<"m", "o", "t", "h", "e", "r">>),
      traveltime |-> StrV(<<"2">>),
      studytime |-> StrV(<<"2">>),
      failures |-> StrV(<<"0">>),
      schoolsup |-> StrV(<<"y", "e", "s">>),
      famsup |-> StrV(<<"y", "e", "s">>),
      paid |-> StrV(<<"n", "o">>),
      activities |-> StrV(<<"y", "e", "s">>),
      nursery |-> StrV(<<"y", "e", "s">>),
      higher |-> StrV(<<"y", "e", "s">>),
      internet |-> StrV(<<"y", "e", "s">>),
      romantic |-> StrV(<<"n", "o">>),
      famrel |-> StrV(<<"4">>),
      freetime |-> StrV(<<"3">>),
      goout |-> StrV(<<"4">>),
      Dalc |-> StrV(<<"1">>),
      Walc |-> StrV(<<"1">>),
      health |-> StrV(<<"3">>),
      absences |-> StrV(<<"6">>),
      G1 |-> StrV(<<"1", "0">>),
      G2 |-> StrV(<<"1", "2">>),
      average_grade |-> StrV(<<"1", "1", ".", "0">>),
      grade_change |-> StrV(<<"2", ".", "0">>) ]

\* the declared range of each numeric-ordinal field of a StudentRecord
FieldRange(f) ==
    CASE f = "age" -> <<15, 22>>
      [] f \in {"Medu", "Fedu", "failures"} -> <<0, 4>>
      [] f \in {"traveltime", "studytime"} -> <<1, 4>>
      [] f \in {"famrel", "freetime", "goout", "Dalc", "Walc", "health"} -> <<1, 5>>
      [] f = "absences" -> <<0, 93>>
      [] OTHER -> <<0, 20>>

NumericFields ==
    {"age", "Medu", "Fedu", "traveltime", "studytime", "failures", "famrel",
     "freetime", "goout", "Dalc", "Walc", "health", "absences", "G1", "G2"}

DerivedFields == {"average_grade", "grade_change"}

Txt(k) == StrV(IF k < 0 THEN <<"-">> \o NatToDigits(-k) ELSE NatToDigits(k))

\* values tried for age
AgeValues ==
    {StrV(<<"1", "4">>), StrV(<<"1", "5">>), StrV(<<"2", "2">>),
     StrV(<<"2", "3">>), StrV(<<"3", "0">>), StrV(<<"3", "1">>),
     StrV(<<"5", "0">>),
     StrV(<<"s", "e", "v", "e", "n", "t", "e", "e", "n">>), StrV(<<>>),
     StrV(<<" ">>), StrV(<<"1", "8", ".", "0">>),
     StrV(<<" ", "1", "8", " ">>), IntV(18), IntV(31), FloatV(159, 10),
     FloatV(149, 10), FloatV(309, 10), InfV, NanV, NoneV, ListV}

\* values tried for G1 and G2
GradeValues ==
    {StrV(<<"-", "1">>), StrV(<<"0">>), StrV(<<"2", "0">>),
     StrV(<<"2", "1">>), StrV(<<"2", "5">>),
     StrV(<<"e", "x", "c", "e", "l", "l", "e", "n", "t">>),
     StrV(<<"n", "a", "n">>), StrV(<<"i", "n", "f">>),
     StrV(<<"1", "0", ".", "5">>), StrV(<<"2", "0", ".", "5">>), StrV(<<>>),
     IntV(0), IntV(21), FloatV(205, 10), FloatV(5, 10), NanV, InfV, NoneV,
     ListV}

\* values tried for school and sex
NameValues ==
    {StrV(<<"M", "S">>), StrV(<<"M">>), StrV(<<"X", "X">>),
     StrV(<<"G", "@", "P", "#">>), StrV(<<"F", "@", "#">>),
     StrV(<<"u", "n", "_", "k", "n", "o", "w", "n">>), StrV(<<>>),
     StrV(<<" ">>), StrV(<<"S", "t", "-", "M", "a", "r", "y", " ", "2">>),
     StrV(<<"-">>), StrV(Rep("A", MaxFieldLen)),
     StrV(Rep("A", MaxFieldLen + 1)), IntV(5), NoneV, FloatV(15, 10)}

\* values tried for customPrompt
PromptValues ==
    {StrV(<<"h", "i">>),
     StrV(<<"<", "b", ">", "h", "i", "<", "/", "b", ">">>),
     StrV(<<"a", "<", "b">>), StrV(<<" ">>), StrV(Rep("A", MaxPromptLen)),
     StrV(Rep("A", MaxPromptLen + 1)), NoneV, IntV(5)}

\* values tried for a field: around both ends of its declared range for a
\* numeric field, every fitted class and some unknown values for a
\* categorical one
FieldValues(f) ==
    CASE f = "age" -> AgeValues
      [] f \in {"G1", "G2"} -> GradeValues
      [] f \in {"school", "sex"} -> NameValues
      [] f = "customPrompt" -> PromptValues
      [] f \in NumericFields ->
             {Txt(FieldRange(f)[1] - 1), Txt(FieldRange(f)[1]), Txt(FieldRange(f)[2]),
              Txt(FieldRange(f)[2] + 1), StrV(<<"a", "b", "c">>)}
      [] f \in DerivedFields -> {StrV(<<"9", "9", ".", "0">>), IntV(0)}
      [] OTHER ->
             {StrV(c) : c \in Range(EncoderClasses(f))}
               \cup {StrV(<<"u", "n", "k", "n", "o", "w", "n", "_", "j", "o", "b">>),
                     IntV(7), NoneV}

AllFields == Range(expected_columns) \cup {"customPrompt"}

\* one change to a body: remove field f, or give it the value v
Change(f, drop, v) == [f |-> f, drop |-> drop, v |-> v]

SingleChanges ==
    {Change(f, TRUE, NoneV) : f \in Range(expected_columns)}
      \cup UNION {{Change(f, FALSE, v) : v \in FieldValues(f)} : f \in AllFields}

\* the changes combined two at a time, on the fields validation reads
PairChanges ==
    {Change("G1", TRUE, NoneV), Change("G1", FALSE, StrV(<<>>)),
     Change("G1", FALSE, StrV(<<"2", "5">>)),
     Change("G2", FALSE, StrV(<<"e", "x">>)), Change("G2", FALSE, NoneV),
     Change("age", TRUE, NoneV), Change("age", FALSE, StrV(<<" ">>)),
     Change("age", FALSE, StrV(<<"5", "0">>)),
     Change("age", FALSE, StrV(<<"3", "0">>)),
     Change("school", TRUE, NoneV), Change("school", FALSE, StrV(<<>>)),
     Change("school", FALSE, StrV(<<"G", "@", "P", "#">>)),
     Change("school", FALSE, StrV(Rep("A", MaxFieldLen + 1))),
     Change("sex", FALSE, StrV(<<"F", "@", "#">>)), Change("sex", FALSE, NoneV),
     Change("customPrompt", FALSE, StrV(Rep("A", MaxPromptLen + 1))),
     Change("customPrompt", FALSE, StrV(<<"h", "i">>)),
     Change("Mjob", FALSE, StrV(<<"x">>))}

ChangeSets ==
    {{}} \cup {{c} : c \in SingleChanges}
         \cup {cs \in {{c1, c2} : c1 \in PairChanges, c2 \in PairChanges} :
                   \A a \in cs, b \in cs : a = b \/ a.f # b.f}

Apply(base, changes) ==
    LET dropped == {c.f : c \in {x \in changes : x.drop}}
        set     == {c.f : c \in {x \in changes : ~x.drop}}
    IN  [f \in (DOMAIN base \ dropped) \cup set |->
            IF f \in set THEN (CHOOSE c \in changes : c.f = f).v ELSE base[f]]

Body(kind, obj) == [kind |-> kind, obj |-> obj]

Request(is_json, body) == [is_json |-> is_json, body |-> body]

NoObject == [f \in {} |-> NoneV]

\* a body that is not JSON, one that does not parse, a falsy JSON value
\* ({} or null), a JSON number, and the JSON objects
Requests ==
    {Request(FALSE, Body("text", NoObject)),
     Request(TRUE, Body("malformed", NoObject)),
     Request(TRUE, Body("falsy", NoObject)),
     Request(TRUE, Body("number", NoObject))}
      \cup {Request(TRUE, Body("object", Apply(sample_student_data, cs))) : cs \in ChangeSets}

\* ------------------------------------------------------------------------
\* Classification tables, grade estimation, explanation and advice
\* ------------------------------------------------------------------------

\* the class ids the classifier was fitted on (LabelEncoder over the labels
\* High, Low, Medium)
Classes == {0, 1, 2}

risk_mapping_no_medium(c) ==
    CASE c = 0 -> "high" [] c = 1 -> "low" [] OTHER -> "unknown"

risk_mapping(c) ==
    CASE c = 0 -> "high" [] c = 1 -> "low" [] c = 2 -> "medium" [] OTHER -> "unknown"

grade_ranges_label_order(c) ==
    CASE c = 0 -> <<0, 9>> [] c = 1 -> <<10, 13>> [] c = 2 -> <<14, 20>>
      [] OTHER -> <<10, 12>>

grade_ranges(c) ==
    CASE c = 0 -> <<0, 9>> [] c = 1 -> <<14, 20>> [] c = 2 -> <<10, 13>>
      [] OTHER -> <<10, 12>>

map_risk_category_pass_mark(grade) ==
    IF grade < 10
    THEN <<"high", "Requires immediate intervention and support.">>
    ELSE IF 10 <= grade /\ grade <= 14
    THEN <<"medium", "Needs focused attention to improve academic trajectory.">>
    ELSE <<"low", "On track, but minor improvements can maximize potential.">>

map_risk_category(grade) ==
    IF grade < 10
    THEN <<"high", "Requires immediate intervention and support.">>
    ELSE IF 10 <= grade /\ grade <= 13
    THEN <<"medium", "Needs focused attention to improve academic trajectory.">>
    ELSE <<"low", "On track, but minor improvements can maximize potential.">>

\* the labels of the probabilities payload, by class id
proba_map(i) ==
    CASE i = 0 -> "High" [] i = 1 -> "Low" [] i = 2 -> "Medium"

\* str.lower() on a class label
lower(label) ==
    CASE label = "High" -> "high" [] label = "Low" -> "low"
      [] label = "Medium" -> "medium" [] label = "Unknown" -> "unknown"
      [] OTHER -> label

\* a confidence is the fraction n / d
Frac(n, d) == [n |-> n, d |-> d]

\* round(n / d) for n >= 0: to the nearest integer, ties to the even one
RoundHalfEven(n, d) ==
    LET q == n \div d
        r == n % d
    IN  IF 2 * r < d THEN q
        ELSE IF 2 * r > d THEN q + 1
        ELSE IF q % 2 = 0 THEN q ELSE q + 1

\* int(round(lo + (hi - lo) * class_confidence))
EstimateGrade(c, conf) ==
    LET lo == grade_ranges(c)[1]
        hi == grade_ranges(c)[2]
    IN  RoundHalfEven(lo * conf.d + (hi - lo) * conf.n, conf.d)

\* the probability vectors predict_proba can return: one entry per class,
\* each k / ConfScale, summing to 1
ProbVectors ==
    {p \in [1..3 -> 0..ConfScale] : p[1] + p[2] + p[3] = ConfScale}

Feature(name, importance) == [feature |-> name, importance |-> importance]

\* importances are in hundredths
fallback_features ==
    <<Feature("G2 Grade", 85), Feature("Failures", 65), Feature("Study Time", 42),
      Feature("Absences", -38), Feature("Family Relation", 30)>>

LogRec(level, msg) == [level |-> level, msg |-> msg]

get_shap_feature_importance_no_fallback(explainer_loaded) ==
    [features |-> <<>>, log |-> LogRec("info", "Skipping SHAP calculation")]

get_shap_feature_importance_computed(explainer_loaded) ==
    IF ~explainer_loaded
    THEN [features |-> fallback_features,
          log |-> LogRec("warning", "SHAP explainer not loaded, using fallback features")]
    ELSE [features |-> SubSeq(fallback_features, 1, 3),
          log |-> LogRec("info", "Skipping SHAP calculation")]

\* the list returned and the log record written
get_shap_feature_importance(explainer_loaded) ==
    IF ~explainer_loaded
    THEN [features |-> fallback_features,
          log |-> LogRec("warning", "SHAP explainer not loaded, using fallback features")]
    ELSE [features |-> fallback_features,
          log |-> LogRec("info", "Skipping SHAP calculation")]

\* the persona table is keyed by the lower-cased category, default medium
get_mentoring_strategy(category) ==
    IF category \in {"high", "medium", "low"} THEN category ELSE "medium"

Advice(source, template, grade, text) ==
    [source |-> source, template |-> template, grade |-> grade, text |-> text]

generate_mock_advice(category, grade, custom_prompt_text) ==
    Advice("mock",
           IF category \in {"high", "medium", "low"} THEN category ELSE "medium",
           grade,
           SubSeq(custom_prompt_text, 1,
                  IF Len(custom_prompt_text) < MockPromptCut
                  THEN Len(custom_prompt_text) ELSE MockPromptCut))

\* student_data.get('customPrompt', '').strip()
CustomPromptText(obj) ==
    IF "customPrompt" \in DOMAIN obj THEN Strip(obj["customPrompt"].s) ELSE <<>>

generate_mentoring_advice_raise_escapes(obj, grade, category, mock, model_loaded, outcome) ==
    IF mock \/ ~model_loaded
    THEN [advice |-> generate_mock_advice(category, grade, CustomPromptText(obj)),
          called |-> FALSE,
          log |-> LogRec("info", "Using mock advice (MOCK MODE or missing model)")]
    ELSE IF outcome = "text"
    THEN [advice |-> Advice("gemini", get_mentoring_strategy(category), grade,
                            CustomPromptText(obj)),
          called |-> TRUE, log |-> LogRec("none", "")]
    ELSE IF outcome = "empty"
    THEN [advice |-> generate_mock_advice(category, grade, CustomPromptText(obj)),
          called |-> TRUE,
          log |-> LogRec("warning", "Gemini returned empty advice; using fallback")]
    ELSE [advice |-> Advice("unavailable", "none", grade, <<>>), called |-> TRUE,
          log |-> LogRec("error", "Mentoring advice generation failed")]

\* outcome is what generate_content does when it is called: "text", "empty"
\* or "raise"
generate_mentoring_advice(obj, grade, category, mock, model_loaded, outcome) ==
    LET fallback == generate_mock_advice(category, grade, CustomPromptText(obj))
    IN  IF mock \/ ~model_loaded
        THEN [advice |-> fallback, called |-> FALSE,
              log |-> LogRec("info", "Using mock advice (MOCK MODE or missing model)")]
        ELSE IF outcome = "text"
        THEN [advice |-> Advice("gemini", get_mentoring_strategy(category), grade,
                                CustomPromptText(obj)),
              called |-> TRUE, log |-> LogRec("none", "")]
        ELSE IF outcome = "empty"
        THEN [advice |-> fallback, called |-> TRUE,
              log |-> LogRec("warning", "Gemini returned empty advice; using fallback")]
        ELSE [advice |-> fallback, called |-> TRUE,
              log |-> LogRec("warning", "Gemini API error/quota, using fallback")]

\* ------------------------------------------------------------------------
\* State
\* ------------------------------------------------------------------------

VARIABLES
    pipeline,             \* TRUE when the classifier pipeline is loaded
    risk_explainer,       \* TRUE when the explainer artifact is loaded
    label_encoder,        \* TRUE when the encoding table is loaded
    USE_MOCK_MODE,        \* the USE_MOCK_MODE setting
    gemini_model,         \* TRUE when the text-generation client exists
    pc,                   \* the handler's position
    request,              \* the request being served
    data,                 \* the parsed body, as validation leaves it
    validation,           \* how validate_student_data ended: [exc, msg]
    preprocessed_df,      \* the encoded row
    predicted_risk_class,
    probabilities,        \* the probability vector, <<>> when unavailable
    class_confidence,
    predicted_g3,
    risk_category,
    risk_descriptor,
    top_features,
    mentoring_advice,
    response,             \* [code, body] once the handler has returned
    calls,                \* the collaborators invoked for this request, in order
    log,                  \* the log records written for this request, in order
    probe,                \* the answer to the health request being served
    explainer_values,     \* what the explainer computes for the row, per class
    prompt,               \* the user's text in the prompt sent to generate_content
    classifier,           \* what the loaded pipeline answers for each row
    parked                \* the frame of the request thread that is not running

artifacts == <<pipeline, risk_explainer, label_encoder, USE_MOCK_MODE, gemini_model>>

\* what the single-request specification leaves as it is
aside == <<explainer_values, prompt, classifier, parked>>

locals == <<data, validation, preprocessed_df, predicted_risk_class, probabilities,
            class_confidence, predicted_g3, risk_category, risk_descriptor,
            top_features, mentoring_advice>>

vars == <<pipeline, risk_explainer, label_encoder, USE_MOCK_MODE, gemini_model,
          pc, request, data, validation, preprocessed_df, predicted_risk_class,
          probabilities, class_confidence, predicted_g3, risk_category,
          risk_descriptor, top_features, mentoring_advice, response, calls, log,
          probe, explainer_values, prompt, classifier, parked>>

NoRequest == Request(FALSE, Body("none", NoObject))

NoResponse == [code |-> 0, body |-> [status |-> "none"]]

NoAdvice == Advice("none", "none", 0, <<>>)

NotValidated == [exc |-> "unset", msg |-> <<>>]

NoProbe == [endpoint |-> "none", code |-> 0, body |-> <<>>]

\* what the explainer returns: one vector of contributions per class, or one
\* vector for the row
ExplainerOutput(shape, rows) == [shape |-> shape, rows |-> rows]

NoExplainerOutput == ExplainerOutput("none", <<>>)

ErrorBody(error, status) == [error |-> error, status |-> status]

\* nothing sent, no classifier consulted, no second thread
Aside ==
    /\ prompt = <<>>
    /\ classifier = <<>>
    /\ parked = <<>>

Fresh ==
    /\ data = NoObject
    /\ validation = NotValidated
    /\ preprocessed_df = <<>>
    /\ predicted_risk_class = -1
    /\ probabilities = <<>>
    /\ class_confidence = Frac(0, 1)
    /\ predicted_g3 = -1
    /\ risk_category = "none"
    /\ risk_descriptor = "none"
    /\ top_features = <<>>
    /\ mentoring_advice = NoAdvice

Init ==
    /\ pipeline = FALSE
    /\ risk_explainer = FALSE
    /\ label_encoder = FALSE
    /\ USE_MOCK_MODE = FALSE
    /\ gemini_model = FALSE
    /\ pc = "boot"
    /\ request = NoRequest
    /\ response = NoResponse
    /\ calls = <<>>
    /\ log = <<>>
    /\ probe = NoProbe
    /\ explainer_values = NoExplainerOutput
    /\ Aside
    /\ Fresh

\* return jsonify(body), code
Reply(code, body) ==
    /\ response' = [code |-> code, body |-> body]
    /\ pc' = "done"

\* ------------------------------------------------------------------------
\* Startup
\* ------------------------------------------------------------------------

LoadModels_separate_tries ==
    /\ pc = "boot"
    /\ \E p \in BOOLEAN, e \in BOOLEAN, l \in BOOLEAN :
          /\ pipeline' = p
          /\ risk_explainer' = e
          /\ label_encoder' = l
    /\ \E mock \in BOOLEAN, key \in BOOLEAN, built \in BOOLEAN :
          /\ USE_MOCK_MODE' = mock
          /\ gemini_model' = (key /\ ~mock /\ built)
    /\ pc' = "idle"
    /\ UNCHANGED <<request, response, calls, log, locals, probe, aside>>

\* The three joblib.load calls share one try block, so a failure leaves the
\* later artifacts unloaded.  The text-generation client exists only with an
\* API key, outside mock mode, when its construction does not raise.
LoadModels ==
    /\ pc = "boot"
    /\ \E k \in 0..3 :
          /\ pipeline' = (k >= 1)
          /\ risk_explainer' = (k >= 2)
          /\ label_encoder' = (k >= 3)
    /\ \E mock \in BOOLEAN, key \in BOOLEAN, built \in BOOLEAN :
          /\ USE_MOCK_MODE' = mock
          /\ gemini_model' = (key /\ ~mock /\ built)
    /\ pc' = "idle"
    /\ UNCHANGED <<request, response, calls, log, locals, probe, aside>>

\* ------------------------------------------------------------------------
\* The health endpoints
\* ------------------------------------------------------------------------

healthz_pipeline_only(pipeline_loaded, encoder_loaded, explainer_loaded) ==
    [ok |-> TRUE, models_loaded |-> pipeline_loaded]

\* the body of the /healthz answer, without its "time" field
healthz(pipeline_loaded, encoder_loaded, explainer_loaded) ==
    [ok |-> TRUE,
     models_loaded |-> pipeline_loaded /\ encoder_loaded /\ explainer_loaded]

\* the body of the /status answer
status(pipeline_loaded, encoder_loaded, explainer_loaded) ==
    [pipeline |-> pipeline_loaded, label_encoder |-> encoder_loaded,
     risk_explainer |-> explainer_loaded]

\* GET /healthz
Healthz ==
    /\ pc = "idle"
    /\ probe' = [endpoint |-> "/healthz", code |-> 200,
                 body |-> healthz(pipeline, label_encoder, risk_explainer)]
    /\ pc' = "probed"
    /\ UNCHANGED <<artifacts, aside, request, response, calls, log, locals>>

\* GET /status
Status ==
    /\ pc = "idle"
    /\ probe' = [endpoint |-> "/status", code |-> 200,
                 body |-> status(pipeline, label_encoder, risk_explainer)]
    /\ pc' = "probed"
    /\ UNCHANGED <<artifacts, aside, request, response, calls, log, locals>>

\* the health request has been answered; the worker takes the next request
ProbeReturn ==
    /\ pc = "probed"
    /\ probe' = NoProbe
    /\ pc' = "idle"
    /\ UNCHANGED <<artifacts, aside, request, response, calls, log, locals>>

\* ------------------------------------------------------------------------
\* predict_risk, one action per stage
\* ------------------------------------------------------------------------

Receive ==
    /\ pc = "idle"
    /\ \E r \in Requests : request' = r
    /\ pc' = "gate"
    /\ UNCHANGED <<artifacts, aside, probe, response, calls, log, locals>>

ModelsMissing_pipeline_only(pipeline_loaded, encoder_loaded) == ~pipeline_loaded

\* pipeline is None or label_encoder is None
ModelsMissing(pipeline_loaded, encoder_loaded) == ~pipeline_loaded \/ ~encoder_loaded

\* the gate at the top of the handler: return ..., 503
CheckModels ==
    /\ pc = "gate"
    /\ IF ModelsMissing(pipeline, label_encoder)
       THEN /\ \E development \in BOOLEAN :
                 Reply(503, [error  |-> <<"Server initialization incomplete. Please try again in a moment.">>,
                             status |-> "service_unavailable",
                             detail |-> IF development THEN "Models not loaded" ELSE "null"])
            /\ log' = Append(log, LogRec("error", "Models not loaded"))
       ELSE /\ pc' = "validate"
            /\ UNCHANGED <<response, log>>
    /\ UNCHANGED <<artifacts, aside, probe, request, calls, locals>>

Unexpected == ErrorBody(<<"An unexpected error occurred">>, "error")

\* what the handler does with the outcome v of validate_student_data
ValidationOutcome(v) ==
    IF v.exc = "none"
    THEN [code |-> 0, body |-> Unexpected, obj |-> v.obj,
          result |-> [exc |-> v.exc, msg |-> v.msg],
          calls |-> <<"validate_student_data">>, log |-> <<>>]
    ELSE IF v.exc = "ValueError"
    THEN [code |-> 400, body |-> ErrorBody(v.msg, "validation_error"), obj |-> v.obj,
          result |-> [exc |-> v.exc, msg |-> v.msg],
          calls |-> <<"validate_student_data">>,
          log |-> <<LogRec("warning", "Validation failed")>>]
    ELSE [code |-> 500, body |-> Unexpected, obj |-> v.obj,
          result |-> [exc |-> v.exc, msg |-> v.msg],
          calls |-> <<"validate_student_data">>,
          log |-> <<LogRec("exception", "Unexpected error in predict_risk")>>]

\* Step 1 of the handler: is_json, get_json, the empty-body test and
\* validate_student_data.  code = 0 means the handler goes on.
ValidationStep(req) ==
    IF ~req.is_json
    THEN [code |-> 400, body |-> ErrorBody(<<"Request must be JSON">>, "validation_error"),
          obj |-> NoObject, result |-> NotValidated, calls |-> <<>>, log |-> <<>>]
    ELSE IF req.body.kind = "malformed"
    THEN [code |-> 500, body |-> Unexpected, obj |-> NoObject,
          result |-> NotValidated, calls |-> <<>>,
          log |-> <<LogRec("exception", "Unexpected error in predict_risk")>>]
    ELSE IF req.body.kind = "falsy"
    THEN [code |-> 400, body |-> ErrorBody(<<"Empty request body">>, "validation_error"),
          obj |-> NoObject, result |-> NotValidated, calls |-> <<>>, log |-> <<>>]
    ELSE ValidationOutcome(validate_student_data(req.body))

Validated_falls_through(o) ==
    /\ calls' = calls \o o.calls
    /\ log' = log \o o.log
    /\ data' = o.obj
    /\ validation' = o.result
    /\ pc' = "preprocess"
    /\ response' = IF o.code = 0 THEN response ELSE [code |-> o.code, body |-> o.body]

\* the handler's state after step 1 with outcome o
Validated(o) ==
    /\ calls' = calls \o o.calls
    /\ log' = log \o o.log
    /\ data' = o.obj
    /\ validation' = o.result
    /\ IF o.code = 0
       THEN pc' = "preprocess" /\ UNCHANGED response
       ELSE Reply(o.code, o.body)

Validate ==
    /\ pc = "validate"
    /\ Validated(ValidationStep(request))
    /\ UNCHANGED <<artifacts, aside, probe, request, preprocessed_df, predicted_risk_class,
                   probabilities, class_confidence, predicted_g3, risk_category,
                   risk_descriptor, top_features, mentoring_advice>>

\* {k: v for k, v in data.items() if k not in ['customPrompt']}
DataForPipeline(obj) == [k \in DOMAIN obj \ {"customPrompt"} |-> obj[k]]

\* Step 2 of the handler
PreprocessStep(obj, encoder_loaded) ==
    LET frame   == DataForPipeline(obj)
        p       == preprocess_data_for_pipeline(frame)
        absent  == SelectSeq(expected_columns, LAMBDA c : c \notin DOMAIN frame)
    IN  IF ~encoder_loaded
        THEN [code |-> 503, body |-> ErrorBody(<<"Model components unavailable">>, "error"),
              row |-> <<>>, calls |-> <<>>,
              log |-> <<LogRec("error", "Label encoder not available during prediction")>>]
        ELSE IF p.exc = "KeyError"
        THEN [code |-> 500,
              body |-> ErrorBody(<<"Data preprocessing error">> \o absent, "error"),
              row |-> <<>>, calls |-> <<"preprocess_data_for_pipeline">>,
              log |-> <<LogRec("error", "Missing preprocessing column")>>]
        ELSE IF p.exc # "none"
        THEN [code |-> 500, body |-> ErrorBody(<<"Data preprocessing failed">>, "error"),
              row |-> <<>>, calls |-> <<"preprocess_data_for_pipeline">>,
              log |-> <<LogRec("exception", "Preprocessing error")>>]
        ELSE [code |-> 0, body |-> Unexpected, row |-> p.row,
              calls |-> <<"preprocess_data_for_pipeline">>, log |-> <<>>]

Preprocess ==
    /\ pc = "preprocess"
    /\ LET o == PreprocessStep(data, label_encoder)
       IN  /\ calls' = calls \o o.calls
           /\ log' = log \o o.log
           /\ preprocessed_df' = o.row
           /\ IF o.code = 0
              THEN pc' = "predict" /\ UNCHANGED response
              ELSE Reply(o.code, o.body)
    /\ UNCHANGED <<artifacts, aside, probe, request, data, validation, predicted_risk_class, probabilities,
                   class_confidence, predicted_g3, risk_category, risk_descriptor,
                   top_features, mentoring_advice>>

\* Step 3: pipeline.predict returns a class id or raises (out = -1)
Predict ==
    /\ pc = "predict"
    /\ calls' = Append(calls, "predict")
    /\ \E out \in Classes \cup {-1} :
          IF out = -1
          THEN /\ Reply(500, ErrorBody(<<"Prediction failed">>, "error"))
               /\ log' = Append(log, LogRec("exception", "Model prediction error"))
               /\ UNCHANGED <<predicted_risk_class, risk_category>>
          ELSE /\ predicted_risk_class' = out
               /\ risk_category' = risk_mapping(out)
               /\ pc' = "confidence"
               /\ UNCHANGED <<response, log>>
    /\ UNCHANGED <<artifacts, aside, probe, request, data, validation, preprocessed_df, probabilities,
                   class_confidence, predicted_g3, risk_descriptor, top_features,
                   mentoring_advice>>

\* Step 4a: predict_proba returns a vector, or raises (p = <<>>) and the
\* confidence falls back to 0.5
Confidence ==
    /\ pc = "confidence"
    /\ calls' = Append(calls, "predict_proba")
    /\ \E p \in ProbVectors \cup {<<>>} :
          /\ probabilities' = p
          /\ IF p = <<>>
             THEN /\ class_confidence' = Frac(1, 2)
                  /\ log' = Append(log, LogRec("warning", "Probability calculation failed, using fallback"))
             ELSE /\ class_confidence' = Frac(p[predicted_risk_class + 1], ConfScale)
                  /\ UNCHANGED log
    /\ pc' = "grade"
    /\ UNCHANGED <<artifacts, aside, probe, request, response, data, validation, preprocessed_df,
                   predicted_risk_class, predicted_g3, risk_category,
                   risk_descriptor, top_features, mentoring_advice>>

\* Step 4b
Grade ==
    /\ pc = "grade"
    /\ predicted_g3' = EstimateGrade(predicted_risk_class, class_confidence)
    /\ risk_descriptor' =
           map_risk_category(EstimateGrade(predicted_risk_class, class_confidence))[2]
    /\ pc' = "alert"
    /\ UNCHANGED <<artifacts, aside, probe, request, response, calls, log, data, validation,
                   preprocessed_df,
                   predicted_risk_class, probabilities, class_confidence,
                   risk_category, top_features, mentoring_advice>>

Alert_every_category ==
    /\ pc = "alert"
    /\ calls' = Append(calls, "send_faculty_alert")
    /\ pc' = "alerting"
    /\ UNCHANGED <<artifacts, aside, probe, request, response, log, locals>>

\* Step 5: send_faculty_alert is called, in the handler's own thread, for a
\* high-risk result
Alert ==
    /\ pc = "alert"
    /\ IF risk_category = "high"
       THEN /\ calls' = Append(calls, "send_faculty_alert")
            /\ pc' = "alerting"
       ELSE /\ pc' = "explain"
            /\ UNCHANGED calls
    /\ UNCHANGED <<artifacts, aside, probe, request, response, log, locals>>

AlertReturn_failure_aborts ==
    /\ pc = "alerting"
    /\ \E raised \in BOOLEAN :
          IF raised
          THEN /\ log' = Append(log, LogRec("error", "Faculty alert failed"))
               /\ Reply(500, ErrorBody(<<"An unexpected error occurred">>, "error"))
          ELSE /\ pc' = "explain"
               /\ UNCHANGED <<response, log>>
    /\ UNCHANGED <<artifacts, aside, probe, request, calls, locals>>

\* send_faculty_alert returns or raises; the exception is logged and dropped
AlertReturn ==
    /\ pc = "alerting"
    /\ \E raised \in BOOLEAN :
          log' = IF raised
                 THEN Append(log, LogRec("error", "Faculty alert failed"))
                 ELSE log
    /\ pc' = "explain"
    /\ UNCHANGED <<artifacts, aside, probe, request, response, calls, locals>>

\* Step 6, first call
Explain ==
    /\ pc = "explain"
    /\ LET r == get_shap_feature_importance(risk_explainer)
       IN  /\ top_features' = r.features
           /\ log' = Append(log, r.log)
    /\ calls' = Append(calls, "get_shap_feature_importance")
    /\ pc' = "advice"
    /\ UNCHANGED <<artifacts, aside, probe, request, response, data, validation, preprocessed_df,
                   predicted_risk_class, probabilities, class_confidence,
                   predicted_g3, risk_category, risk_descriptor, mentoring_advice>>

\* the handler's state once generate_mentoring_advice has returned r
Advised(r) ==
    /\ mentoring_advice' = r.advice
    /\ log' = IF r.log.level = "none" THEN log ELSE Append(log, r.log)
    /\ pc' = "respond"

\* Step 6, second call: generate_mentoring_advice up to the point where it
\* returns the mock advice or calls generate_content
Advise ==
    /\ pc = "advice"
    /\ IF USE_MOCK_MODE \/ ~gemini_model
       THEN /\ Advised(generate_mentoring_advice(data, predicted_g3, risk_category,
                                                 USE_MOCK_MODE, gemini_model, "none"))
            /\ UNCHANGED calls
       ELSE /\ calls' = Append(calls, "generate_content")
            /\ pc' = "generating"
            /\ UNCHANGED <<mentoring_advice, log>>
    /\ UNCHANGED <<artifacts, aside, probe, request, response, data, validation, preprocessed_df,
                   predicted_risk_class, probabilities, class_confidence,
                   predicted_g3, risk_category, risk_descriptor, top_features>>

\* generate_content returns text, returns no text, or raises
GenerateReturn ==
    /\ pc = "generating"
    /\ \E outcome \in {"text", "empty", "raise"} :
          Advised(generate_mentoring_advice(data, predicted_g3, risk_category,
                                            USE_MOCK_MODE, gemini_model, outcome))
    /\ UNCHANGED <<artifacts, aside, probe, request, response, calls, data, validation, preprocessed_df,
                   predicted_risk_class, probabilities, class_confidence,
                   predicted_g3, risk_category, risk_descriptor, top_features>>

\* Step 7
BuildResponse ==
    /\ pc = "respond"
    /\ Reply(200, [prediction       |-> predicted_g3,
                   risk_category    |-> risk_category,
                   risk_descriptor  |-> risk_descriptor,
                   confidence       |-> class_confidence,
                   probabilities    |-> probabilities,
                   shap_values      |-> top_features,
                   mentoring_advice |-> mentoring_advice,
                   status           |-> "success"])
    /\ UNCHANGED <<artifacts, aside, probe, request, calls, log, locals>>

\* the handler has returned; the worker takes the next request
Finish ==
    /\ pc = "done"
    /\ pc' = "idle"
    /\ request' = NoRequest
    /\ response' = NoResponse
    /\ calls' = <<>>
    /\ log' = <<>>
    /\ data' = NoObject
    /\ validation' = NotValidated
    /\ preprocessed_df' = <<>>
    /\ predicted_risk_class' = -1
    /\ probabilities' = <<>>
    /\ class_confidence' = Frac(0, 1)
    /\ predicted_g3' = -1
    /\ risk_category' = "none"
    /\ risk_descriptor' = "none"
    /\ top_features' = <<>>
    /\ mentoring_advice' = NoAdvice
    /\ UNCHANGED <<artifacts, aside, probe>>

Next ==
    \/ LoadModels
    \/ Receive
    \/ CheckModels
    \/ Validate
    \/ Preprocess
    \/ Predict
    \/ Confidence
    \/ Grade
    \/ Alert
    \/ AlertReturn
    \/ Explain
    \/ Advise
    \/ GenerateReturn
    \/ BuildResponse
    \/ Finish
    \/ Healthz
    \/ Status
    \/ ProbeReturn

Spec == Init /\ [][Next]_vars

\* the steps the process takes by itself, startup and the handler's own code:
\* every step but the arrival of a request and the return of a collaborator
HandlerStep ==
    \/ LoadModels
    \/ CheckModels
    \/ Validate
    \/ Preprocess
    \/ Predict
    \/ Confidence
    \/ Grade
    \/ Alert
    \/ Explain
    \/ Advise
    \/ BuildResponse
    \/ Finish
    \/ ProbeReturn

\* ------------------------------------------------------------------------
\* get_shap_feature_importance of both applications, applied to the
\* explainer's output for one row
\* ------------------------------------------------------------------------

\* the columns of the row the explainer sees, in the order of expected_columns
feature_names == <<"school", "age", "studytime", "failures", "G2", "average_grade">>

readable_names ==
    [G1 |-> "First Grade (G1)", G2 |-> "Second Grade (G2)",
     failures |-> "Past Failures", studytime |-> "Weekly Study Time",
     absences |-> "Absences", Medu |-> "Mother's Education",
     Fedu |-> "Father's Education", goout |-> "Going Out Frequency",
     health |-> "Health Status", famrel |-> "Family Relationship Quality"]

\* name.replace('_', ' ').title()
Title(name) ==
    CASE name = "school" -> "School"
      [] name = "age" -> "Age"
      [] name = "average_grade" -> "Average Grade"
      [] name = "grade_change" -> "Grade Change"
      [] OTHER -> name

\* readable_names.get(name, name.replace('_', ' ').title())
ReadableName(name) ==
    IF name \in DOMAIN readable_names THEN readable_names[name] ELSE Title(name)

legacy_static_features ==
    <<Feature("Second Grade (G2)", 85), Feature("Past Failures", -65),
      Feature("Weekly Study Time", 40), Feature("Absences", -30),
      Feature("Mother's Education", 25)>>

legacy_error_features ==
    <<Feature("Second Grade (G2)", 85), Feature("Weekly Study Time", 40),
      Feature("Absences", -30)>>

Abs(x) == IF x < 0 THEN -x ELSE x

\* the per-class vectors differ from one another: class c sees the base
\* vector rotated by c columns
Rotated(base, c) ==
    [i \in DOMAIN base |-> base[((i - 1 + c) % Len(base)) + 1]]

ExplainerOutputs ==
    {ExplainerOutput("per_class", [c \in Classes |-> Rotated(base, c)]) :
        base \in [1..Len(feature_names) -> -ShapScale..ShapScale]}
    \cup {ExplainerOutput("per_row", [c \in {0} |-> base]) :
        base \in [1..Len(feature_names) -> -ShapScale..ShapScale]}

\* values[int(predicted_class)][0], values[0, int(predicted_class), :] or
\* values[0, :]
class_values(values, predicted_class) ==
    IF values.shape = "per_class" THEN values.rows[predicted_class]
    ELSE values.rows[0]

\* list(zip(feature_names, class_values.tolist()))
importance_pairs(names, contributions) ==
    [i \in 1..Len(names) |-> <<names[i], contributions[i]>>]

\* where the stable descending sort puts pair p in an already sorted list:
\* behind every pair whose key is not smaller
InsertByKey(sorted, p, k) ==
    SubSeq(sorted, 1, k) \o <<p>> \o SubSeq(sorted, k + 1, Len(sorted))

RECURSIVE sorted_by_signed_value(_)
sorted_by_signed_value(pairs) ==
    IF pairs = <<>> THEN <<>>
    ELSE InsertByKey(sorted_by_signed_value(SubSeq(pairs, 1, Len(pairs) - 1)),
                     pairs[Len(pairs)],
                     Cardinality({i \in 1..(Len(pairs) - 1) :
                                    pairs[i][2] >= pairs[Len(pairs)][2]}))

\* sorted(importance_pairs, key=lambda x: abs(x[1]), reverse=True)
RECURSIVE sorted_by_abs(_)
sorted_by_abs(pairs) ==
    IF pairs = <<>> THEN <<>>
    ELSE InsertByKey(sorted_by_abs(SubSeq(pairs, 1, Len(pairs) - 1)),
                     pairs[Len(pairs)],
                     Cardinality({i \in 1..(Len(pairs) - 1) :
                                    Abs(pairs[i][2]) >= Abs(pairs[Len(pairs)][2])}))

\* [:5]
Head5(seq) == SubSeq(seq, 1, IF Len(seq) < TopN THEN Len(seq) ELSE TopN)

top_sorted(pairs) == Head5(sorted_by_abs(pairs))

Readable(top) ==
    [i \in 1..Len(top) |-> Feature(ReadableName(top[i][1]), top[i][2])]

\* student-risk-app: the list returned and the log record written, if any
legacy_get_shap_feature_importance(explainer_loaded, values, predicted_class, raised) ==
    IF ~explainer_loaded
    THEN [features |-> legacy_static_features, log |-> <<>>]
    ELSE IF raised
    THEN [features |-> legacy_error_features,
          log |-> <<LogRec("error", "SHAP calculation error")>>]
    ELSE [features |-> Readable(top_sorted(importance_pairs(feature_names,
                                     class_values(values, predicted_class)))),
          log |-> <<>>]

\* the inputs of one call: the explainer, its output for the row, the class
ShapInit ==
    /\ pipeline = TRUE
    /\ label_encoder = TRUE
    /\ USE_MOCK_MODE = FALSE
    /\ gemini_model = FALSE
    /\ \/ risk_explainer = FALSE /\ explainer_values = NoExplainerOutput
       \/ risk_explainer = TRUE /\ explainer_values \in ExplainerOutputs
    /\ pc = "shap"
    /\ Aside
    /\ request = NoRequest
    /\ response = NoResponse
    /\ calls = <<>>
    /\ log = <<>>
    /\ probe = NoProbe
    /\ data = NoObject
    /\ validation = NotValidated
    /\ preprocessed_df = <<>>
    /\ predicted_risk_class \in Classes
    /\ probabilities = <<>>
    /\ class_confidence = Frac(0, 1)
    /\ predicted_g3 = -1
    /\ risk_category = "none"
    /\ risk_descriptor = "none"
    /\ top_features = <<>>
    /\ mentoring_advice = NoAdvice

\* app: get_shap_feature_importance(preprocessed_df, predicted_risk_class)
GetShapFeatureImportance ==
    /\ pc = "shap"
    /\ top_features' = get_shap_feature_importance(risk_explainer).features
    /\ log' = Append(log, get_shap_feature_importance(risk_explainer).log)
    /\ calls' = Append(calls, "get_shap_feature_importance")
    /\ pc' = "shap_done"
    /\ UNCHANGED <<artifacts, aside, probe, request, response, data,
                   validation, preprocessed_df, predicted_risk_class,
                   probabilities, class_confidence, predicted_g3, risk_category,
                   risk_descriptor, mentoring_advice>>

\* the state once the student-risk-app function has returned r
LegacyReturned(r) ==
    /\ top_features' = r.features
    /\ log' = log \o r.log

\* student-risk-app: get_shap_feature_importance(preprocessed_data, predicted_class);
\* the explainer may raise
LegacyGetShapFeatureImportance ==
    /\ pc = "shap"
    /\ \E raised \in BOOLEAN :
        LegacyReturned(legacy_get_shap_feature_importance(
            risk_explainer, explainer_values, predicted_risk_class, raised))
    /\ calls' = Append(calls, "legacy_get_shap_feature_importance")
    /\ pc' = "shap_done"
    /\ UNCHANGED <<artifacts, aside, probe, request, response, data,
                   validation, preprocessed_df, predicted_risk_class,
                   probabilities, class_confidence, predicted_g3, risk_category,
                   risk_descriptor, mentoring_advice>>

ShapNext ==
    \/ GetShapFeatureImportance
    \/ LegacyGetShapFeatureImportance

ShapSpec == ShapInit /\ [][ShapNext]_vars

\* ------------------------------------------------------------------------
\* customPrompt on its way into the prompt, in both applications: the
\* validation that precedes generate_mentoring_advice and the text that
\* function places in the prompt
\* ------------------------------------------------------------------------

\* student-risk-app: the validations table, in the order of the loop
legacy_validations ==
    <<<<"G1", 0, 20>>, <<"G2", 0, 20>>, <<"age", 15, 22>>, <<"studytime", 1, 4>>,
      <<"failures", 0, 4>>, <<"famrel", 1, 5>>, <<"freetime", 1, 5>>,
      <<"goout", 1, 5>>, <<"Dalc", 1, 5>>, <<"Walc", 1, 5>>, <<"health", 1, 5>>,
      <<"absences", 0, 93>>, <<"Medu", 0, 4>>, <<"Fedu", 0, 4>>,
      <<"traveltime", 1, 4>>>>

\* one iteration of the range loop: the exception that leaves it.  int()
\* raising ValueError or TypeError is re-raised as ValueError; OverflowError
\* is not caught
LegacyRangeError(obj, v) ==
    IF v[1] \notin DOMAIN obj THEN "none"
    ELSE IF PyInt(obj[v[1]]).exc = "OverflowError" THEN "OverflowError"
    ELSE IF PyInt(obj[v[1]]).exc # "none" THEN "ValueError"
    ELSE IF PyInt(obj[v[1]]).val.n < v[2] \/ PyInt(obj[v[1]]).val.n > v[3]
    THEN "ValueError"
    ELSE "none"

\* the categorical loop: each valid_values list holds the values the encoder
\* of that column was fitted on
LegacyCategoricalError(obj) ==
    \E f \in Range(categorical_cols) \cap DOMAIN obj :
        ~(obj[f].t = "str" /\ obj[f].s \in Range(EncoderClasses(f)))

\* the range loop left at iteration bad (0: not at all), then the
\* categorical loop
LegacyCheckRanges(obj, bad) ==
    IF bad # 0
    THEN VResult(LegacyRangeError(obj, legacy_validations[bad]),
                 <<"must be between, or must be a valid number">>, obj)
    ELSE IF LegacyCategoricalError(obj)
    THEN VResult("ValueError", <<"must be one of">>, obj)
    ELSE VResult("none", <<>>, obj)

\* student-risk-app: validate_student_data; customPrompt is not looked at and
\* data is left as it came
legacy_validate_student_data(obj) ==
    IF \E f \in Range(required) : f \notin DOMAIN obj
    THEN VResult("ValueError", <<"Missing required field">>, obj)
    ELSE LegacyCheckRanges(obj,
             FirstIdx([i \in 1..Len(legacy_validations) |->
                          LegacyRangeError(obj, legacy_validations[i]) # "none"]))

Composed(advice, text, exc) == [advice |-> advice, prompt |-> text, exc |-> exc]

\* student-risk-app: generate_mentoring_advice; prompt is the text of
\* custom_prompt_section inside the prompt given to generate_content
legacy_generate_mentoring_advice(obj, grade, model_loaded, outcome) ==
    IF ~model_loaded
    THEN Composed(Advice("unavailable", "none", grade, <<>>), <<>>, "none")
    ELSE IF "customPrompt" \notin DOMAIN obj
    THEN Composed(Advice(outcome, "none", grade, <<>>), <<>>, "none")
    ELSE IF obj["customPrompt"].t # "str"
    THEN Composed(NoAdvice, <<>>, "AttributeError")
    ELSE Composed(Advice(outcome, "none", grade, <<>>),
                  Strip(obj["customPrompt"].s), "none")

\* app: what generate_mentoring_advice returns and the user's text in the
\* prompt it sent, if it sent one
AppComposed(obj, r) ==
    Composed(r.advice, IF r.called THEN CustomPromptText(obj) ELSE <<>>, "none")

\* the bodies whose way into the prompt is followed: the fixture with each
\* customPrompt tried, without one, and with a field validation rejects
PromptRequests ==
    {Request(TRUE, Body("object", Apply(sample_student_data, cs))) :
        cs \in {{}} \cup {{Change("customPrompt", FALSE, v)} : v \in PromptValues}
                    \cup {{Change("customPrompt", FALSE, StrV(<<"h", "i">>)),
                           Change("age", FALSE, StrV(<<"1", "4">>))}}}

PromptInit ==
    /\ pipeline = TRUE
    /\ risk_explainer = TRUE
    /\ label_encoder = TRUE
    /\ USE_MOCK_MODE \in BOOLEAN
    /\ gemini_model \in BOOLEAN
    /\ USE_MOCK_MODE => ~gemini_model
    /\ pc = "prompt"
    /\ request \in PromptRequests
    /\ response = NoResponse
    /\ calls = <<>>
    /\ log = <<>>
    /\ probe = NoProbe
    /\ explainer_values = NoExplainerOutput
    /\ Aside
    /\ data = NoObject
    /\ validation = NotValidated
    /\ preprocessed_df = <<>>
    /\ predicted_risk_class \in Classes
    /\ probabilities = <<>>
    /\ class_confidence = Frac(1, 2)
    /\ predicted_g3 = EstimateGrade(predicted_risk_class, class_confidence)
    /\ risk_category = risk_mapping(predicted_risk_class)
    /\ risk_descriptor = "none"
    /\ top_features = <<>>
    /\ mentoring_advice = NoAdvice

\* the state once validation has ended as v and, when it passed, the advice
\* function has returned c
PromptComposed(v, c) ==
    /\ validation' = [exc |-> IF v.exc = "none" THEN c.exc ELSE v.exc, msg |-> v.msg]
    /\ data' = v.obj
    /\ mentoring_advice' = IF v.exc = "none" THEN c.advice ELSE NoAdvice
    /\ prompt' = IF v.exc = "none" THEN c.prompt ELSE <<>>
    /\ pc' = "prompt_done"
    /\ UNCHANGED <<artifacts, explainer_values, classifier, parked, probe,
                   request, response, log, preprocessed_df, predicted_risk_class,
                   probabilities, class_confidence, predicted_g3, risk_category,
                   risk_descriptor, top_features>>

\* app: validate_student_data(data), then generate_mentoring_advice(data, ...)
ComposePrompt ==
    /\ pc = "prompt"
    /\ calls' = Append(calls, "generate_mentoring_advice")
    /\ \E outcome \in {"text", "empty", "raise"} :
          PromptComposed(
              validate_student_data(request.body),
              AppComposed(validate_student_data(request.body).obj,
                  generate_mentoring_advice(validate_student_data(request.body).obj,
                      predicted_g3, risk_category, USE_MOCK_MODE, gemini_model,
                      outcome)))

\* student-risk-app: validate_student_data(data), then
\* generate_mentoring_advice(data, ...)
LegacyComposePrompt ==
    /\ pc = "prompt"
    /\ calls' = Append(calls, "legacy_generate_mentoring_advice")
    /\ \E outcome \in {"text", "empty", "raise"} :
          PromptComposed(
              legacy_validate_student_data(request.body.obj),
              legacy_generate_mentoring_advice(request.body.obj, predicted_g3,
                                               gemini_model, outcome))

PromptNext ==
    \/ ComposePrompt
    \/ LegacyComposePrompt

PromptSpec == PromptInit /\ [][PromptNext]_vars

\* ------------------------------------------------------------------------
\* preprocess_data_for_pipeline on a frame that keeps the order of the keys
\* of the JSON object
\* ------------------------------------------------------------------------

\* a DataFrame of one row: the column labels in order and the cell of each
Frame(columns, cells) == [columns |-> columns, cells |-> cells]

\* pd.DataFrame([{k: v for k, v in data.items() if k not in ['customPrompt']}]):
\* keys is the order of the keys of data
DataFrame(keys, obj) ==
    Frame(SelectSeq(keys, LAMBDA k : k # "customPrompt"),
          [i \in 1..Len(SelectSeq(keys, LAMBDA k : k # "customPrompt")) |->
              obj[SelectSeq(keys, LAMBDA k : k # "customPrompt")[i]]])

\* the encoding loop: the cells of the categorical columns are replaced in
\* place
EncodeFrame(df) ==
    Frame(df.columns,
          [i \in 1..Len(df.columns) |->
              IF df.columns[i] \in Range(categorical_cols) /\ df.columns[i] \in EncoderColumns
              THEN EncodeCell(df.columns[i], df.cells[i])
              ELSE df.cells[i]])

PositionOf(columns, label) == CHOOSE i \in 1..Len(columns) : columns[i] = label

Reindex_positional(df, labels) ==
    IF Len(df.columns) < Len(labels)
    THEN PResult("KeyError", Frame(<<>>, <<>>))
    ELSE PResult("none", Frame(labels, SubSeq(df.cells, 1, Len(labels))))

\* df[labels]: the columns are looked up by label
Reindex(df, labels) ==
    IF \E i \in 1..Len(labels) : labels[i] \notin Range(df.columns)
    THEN PResult("KeyError", Frame(<<>>, <<>>))
    ELSE PResult("none",
                 Frame(labels,
                       [i \in 1..Len(labels) |-> df.cells[PositionOf(df.columns, labels[i])]]))

\* preprocess_data_for_pipeline(feature_df, label_encoder) of either application
preprocess_frame(df) == Reindex(EncodeFrame(df), expected_columns)

Rotation(seq, k) == [i \in 1..Len(seq) |-> seq[((i - 1 + k) % Len(seq)) + 1]]

Swapped(seq, a, b) ==
    [i \in 1..Len(seq) |-> IF i = a THEN seq[b] ELSE IF i = b THEN seq[a] ELSE seq[i]]

Reversed(seq) == [i \in 1..Len(seq) |-> seq[Len(seq) + 1 - i]]

\* orders in which a client can send the expected fields
KeyOrders ==
    {Rotation(expected_columns, k) : k \in 0..(Len(expected_columns) - 1)}
      \cup {Reversed(expected_columns)}
      \cup {Swapped(expected_columns, a, b) :
               a \in 1..Len(expected_columns), b \in 1..Len(expected_columns)}

\* keys a client can send on top of them
ExtraKeys ==
    {<<>>, <<"G3">>, <<"customPrompt">>, <<"student_id", "G3">>, <<"absences_total">>}

\* a JSON object with its keys in order: the fixture's values, extra keys
\* before or behind the expected ones, one expected key possibly left out
OrderedBodies ==
    {[kind |-> "object", keys |-> keys,
      obj |-> [k \in Range(keys) |->
                  IF k \in DOMAIN sample_student_data THEN sample_student_data[k]
                  ELSE StrV(<<"x">>)]] :
        keys \in UNION {{front \o order, order \o front, front \o Tail(order)} :
                            front \in ExtraKeys, order \in KeyOrders}}

ColumnInit ==
    /\ pipeline = TRUE
    /\ risk_explainer = TRUE
    /\ label_encoder = TRUE
    /\ USE_MOCK_MODE = FALSE
    /\ gemini_model = FALSE
    /\ pc = "frame"
    /\ \E body \in OrderedBodies : request = Request(TRUE, body)
    /\ response = NoResponse
    /\ calls = <<>>
    /\ log = <<>>
    /\ probe = NoProbe
    /\ explainer_values = NoExplainerOutput
    /\ Aside
    /\ Fresh

\* app: preprocess_data_for_pipeline(feature_df, label_encoder)
PreprocessFrame ==
    /\ pc = "frame"
    /\ preprocessed_df' = preprocess_frame(DataFrame(request.body.keys, request.body.obj))
    /\ calls' = Append(calls, "preprocess_data_for_pipeline")
    /\ pc' = "frame_done"
    /\ UNCHANGED <<artifacts, aside, probe, request, response, log, data, validation,
                   predicted_risk_class, probabilities, class_confidence,
                   predicted_g3, risk_category, risk_descriptor, top_features,
                   mentoring_advice>>

\* student-risk-app: the same function, line for line
LegacyPreprocessFrame ==
    /\ pc = "frame"
    /\ preprocessed_df' = preprocess_frame(DataFrame(request.body.keys, request.body.obj))
    /\ calls' = Append(calls, "legacy_preprocess_data_for_pipeline")
    /\ pc' = "frame_done"
    /\ UNCHANGED <<artifacts, aside, probe, request, response, log, data, validation,
                   predicted_risk_class, probabilities, class_confidence,
                   predicted_g3, risk_category, risk_descriptor, top_features,
                   mentoring_advice>>

ColumnNext ==
    \/ PreprocessFrame
    \/ LegacyPreprocessFrame

ColumnSpec == ColumnInit /\ [][ColumnNext]_vars

\* ------------------------------------------------------------------------
\* Properties
\* ------------------------------------------------------------------------

Done == pc = "done"

Loaded == pipeline /\ label_encoder

Called(name) == name \in Range(calls)

IsObject == request.is_json /\ request.body.kind = "object"

ModelWork ==
    {"predict", "predict_proba", "send_faculty_alert",
     "get_shap_feature_importance", "generate_content"}

\* C1: validation runs before any model work: the classifier, the
\* explanation step, the text-generation call and the alert are invoked only
\* for a request that validate_student_data accepted, and a request whose
\* validation fails ends in HTTP 400, status "validation_error", carrying the
\* validator's message.
C1_ValidationGate ==
    /\ (Range(calls) \cap ModelWork # {}) => validation.exc = "none"
    /\ (Done /\ validation.exc \notin {"unset", "none"}) =>
           /\ response.code = 400
           /\ response.body.status = "validation_error"
           /\ response.body.error = validation.msg

InputFields == Range(expected_columns) \ DerivedFields

\* C3: with the models loaded, a request that omits any input field of the
\* StudentRecord is answered 400 "validation_error", never 500 and never 200.
C3_MissingFieldRejected ==
    (Done /\ Loaded /\ IsObject
          /\ \E f \in InputFields : f \notin DOMAIN request.body.obj) =>
        /\ response.code = 400
        /\ response.body.status = "validation_error"

\* the field holds a finite number outside its declared range
OutOfRange(obj, f) ==
    /\ f \in DOMAIN obj
    /\ PyFloat(obj[f]).exc = "none"
    /\ PyFloat(obj[f]).val.t = "float"
    /\ ~FloatBetween(PyFloat(obj[f]).val, FieldRange(f)[1], FieldRange(f)[2])

\* C4: a numeric field supplied outside its declared range makes the request
\* end in 400 "validation_error", and the value never reaches the classifier.
C4_RangeEnforced ==
    (Loaded /\ IsObject /\ \E f \in NumericFields : OutOfRange(request.body.obj, f)) =>
        /\ ~Called("predict")
        /\ Done => /\ response.code = 400
                   /\ response.body.status = "validation_error"

NameAccepted(v) ==
    /\ Len(PyStr(v)) <= 100
    /\ IsAlnum(Replace(Replace(PyStr(v), " "), "-"))

\* the conditions under which validate_student_data is said to return True
ClaimedValid(obj) ==
    /\ \A f \in Range(required) : f \in DOMAIN obj /\ ~IsEmptyValue(obj[f])
    /\ PyInt(obj["age"]).exc = "none"
    /\ 15 <= PyInt(obj["age"]).val.n /\ PyInt(obj["age"]).val.n <= 30
    /\ \A g \in {"G1", "G2"} :
          /\ PyFloat(obj[g]).exc = "none"
          /\ FloatBetween(PyFloat(obj[g]).val, 0, 20)
    /\ \A f \in {"school", "sex"} : NameAccepted(obj[f])
    /\ "customPrompt" \in DOMAIN obj => Len(PyStr(obj["customPrompt"])) <= 500

\* the check said to fail first, in the order missing, empty, numeric,
\* string, customPrompt
ClaimedFailure(obj) ==
    IF \E f \in Range(required) : f \notin DOMAIN obj THEN {"Missing required fields"}
    ELSE IF \E f \in Range(required) : IsEmptyValue(obj[f]) THEN {"Field cannot be empty"}
    ELSE IF ~(/\ PyInt(obj["age"]).exc = "none"
              /\ 15 <= PyInt(obj["age"]).val.n /\ PyInt(obj["age"]).val.n <= 30
              /\ \A g \in {"G1", "G2"} :
                    /\ PyFloat(obj[g]).exc = "none"
                    /\ FloatBetween(PyFloat(obj[g]).val, 0, 20))
    THEN {"Invalid numeric values"}
    ELSE IF \E f \in {"school", "sex"} : ~NameAccepted(obj[f])
    THEN {"Field exceeds maximum length", "Field contains invalid characters"}
    ELSE {"Custom prompt exceeds maximum length (500 chars)"}

\* C5: validate_student_data returns True exactly when the five required
\* fields are present and non-empty, 15 <= int(age) <= 30, G1 and G2 are in
\* [0, 20], school and sex are at most 100 alphanumeric characters (spaces
\* and hyphens aside) and customPrompt is at most 500 characters; otherwise
\* it raises ValueError, the first failing check giving the message.
C5_ValidateExact ==
    (IsObject /\ validation.exc # "unset") =>
        /\ validation.exc \in {"none", "ValueError"}
        /\ validation.exc = "none" <=> ClaimedValid(request.body.obj)
        /\ validation.exc = "ValueError" =>
               validation.msg[1] \in ClaimedFailure(request.body.obj)

\* the value is not one of the classes the column's encoder was fitted on
UnknownCategory(obj, f) ==
    /\ f \in DOMAIN obj
    /\ ~(obj[f].t = "str" /\ obj[f].s \in Range(EncoderClasses(f)))

\* the body with field f holding the fixture's value for it
WithFixtureValue(obj, f) == [obj EXCEPT ![f] = sample_student_data[f]]

\* the body passes validation and preprocessing
Accepted(obj) ==
    /\ validate_student_data(Body("object", obj)).exc = "none"
    /\ preprocess_data_for_pipeline(DataForPipeline(obj)).exc = "none"

ColumnIndex(f) == CHOOSE i \in 1..Len(expected_columns) : expected_columns[i] = f

\* what is required of the handler when field f of the body holds a value
\* outside the fitted classes: no rejection, code 0 in the row, and a 200
\* unless the classifier itself raises
EncodedToDefault(f) ==
    /\ validation.exc = "none"
    /\ preprocessed_df # <<>> => preprocessed_df[ColumnIndex(f)] = IntV(0)
    /\ Done => \/ response.code = 200
               \/ response.body.error = <<"Prediction failed">>

\* a fitted value is replaced by its position in classes_
EncodedToFitted(f) ==
    preprocessed_df # <<>> =>
        /\ preprocessed_df[ColumnIndex(f)].t = "int"
        /\ EncoderClasses(f)[preprocessed_df[ColumnIndex(f)].n + 1] = request.body.obj[f].s

NameWellFormed(v) == ~IsEmptyValue(v) /\ NameAccepted(v)

CategoryRange(category) ==
    CASE category = "high" -> <<0, 9>>
      [] category = "medium" -> <<10, 13>>
      [] category = "low" -> <<14, 20>>
      [] OTHER -> <<1, 0>>

\* C8: for every class id and every confidence in [0, 1], the default 0.5
\* included, the estimated grade lies in the sub-range of its class: High
\* [0, 9], Medium [10, 13], Low [14, 20].
C8_GradeInSubrange ==
    predicted_g3 # -1 =>
        /\ 0 <= class_confidence.n /\ class_confidence.n <= class_confidence.d
        /\ CategoryRange(risk_category)[1] <= predicted_g3
        /\ predicted_g3 <= CategoryRange(risk_category)[2]
        /\ 0 <= predicted_g3 /\ predicted_g3 <= 20

\* probabilities were unavailable: class High at the default confidence 0.5
\* gives round(4.5) = 4
C8_Witness ==
    /\ predicted_risk_class = 0
    /\ probabilities = <<>>
    /\ class_confidence = Frac(1, 2)
    /\ predicted_g3 = 4

\* C9: every 200 response has status "success", carries prediction,
\* risk_category, confidence, shap_values and mentoring_advice, and has
\* risk_category in {high, medium, low}, prediction in [0, 20], confidence in
\* [0, 1] and a list as shap_values.
C9_SuccessShape ==
    (Done /\ response.code = 200) =>
        /\ {"prediction", "risk_category", "confidence", "shap_values",
            "mentoring_advice", "status"} \subseteq DOMAIN response.body
        /\ response.body.status = "success"
        /\ response.body.risk_category \in {"high", "medium", "low"}
        /\ response.body.prediction \in 0..20
        /\ 0 <= response.body.confidence.n
        /\ response.body.confidence.n <= response.body.confidence.d
        /\ DOMAIN response.body.shap_values = 1..Len(response.body.shap_values)

\* a Medium prediction with probabilities available was answered 200
C9_Witness ==
    /\ Done
    /\ response.code = 200
    /\ response.body.risk_category = "medium"
    /\ response.body.probabilities # <<>>
    /\ response.body.prediction = 13

\* the log record that reports the explanation step's degradation
ExplanationDegraded ==
    \E r \in Range(log) :
        r.msg \in {"Skipping SHAP calculation",
                   "SHAP explainer not loaded, using fallback features"}

AdviceFallbackLogged ==
    \E r \in Range(log) :
        r.msg \in {"Using mock advice (MOCK MODE or missing model)",
                   "Gemini returned empty advice; using fallback",
                   "Gemini API error/quota, using fallback"}

\* the advice step is over: the call was skipped or has returned
AdviceReturned == pc \in {"respond", "done"} /\ Called("get_shap_feature_importance")

\* C11: when generate_content raises or returns empty text, or is not called
\* because mock mode is on or no client is configured, the advice is the
\* local template keyed by the risk category (the medium template for an
\* unknown category), and the response is 200 "success" with that advice.
C11_AdviceFallback ==
    /\ \A g \in 0..20 : generate_mock_advice("unknown", g, <<>>).template = "medium"
    /\ AdviceReturned =>
          /\ (USE_MOCK_MODE \/ ~gemini_model) => ~Called("generate_content")
          /\ (~Called("generate_content") \/ mentoring_advice.source # "gemini") =>
                /\ AdviceFallbackLogged
                /\ mentoring_advice.source = "mock"
                /\ mentoring_advice.template = risk_category
                /\ mentoring_advice.grade = predicted_g3
          /\ Done => /\ response.code = 200
                     /\ response.body.status = "success"
                     /\ response.body.mentoring_advice = mentoring_advice
                     /\ response.body.mentoring_advice.source \in {"mock", "gemini"}

\* generate_content was called and raised; the high-risk template was
\* returned in a 200 response
C11_Witness ==
    /\ Done
    /\ Called("generate_content")
    /\ LogRec("warning", "Gemini API error/quota, using fallback") \in Range(log)
    /\ response.code = 200
    /\ response.body.mentoring_advice.source = "mock"
    /\ response.body.mentoring_advice.template = "high"

\* how many times the faculty alert was invoked for the request
AlertCount == Cardinality({i \in DOMAIN calls : calls[i] = "send_faculty_alert"})

\* C12: the faculty alert is invoked exactly once for a request whose
\* computed category is "high" and never for any other request: medium, low,
\* rejected by validation, answered 503, or failed before classification.
C12_AlertExactlyOnce ==
    /\ AlertCount <= 1
    /\ predicted_risk_class = -1 => AlertCount = 0
    /\ risk_category # "high" => AlertCount = 0
    /\ (Done /\ response.code # 200) => AlertCount = 0
    /\ (Done /\ response.code = 200) =>
          AlertCount = IF response.body.risk_category = "high" THEN 1 ELSE 0

\* a high-risk request was answered after one alert
C12_Witness ==
    /\ Done
    /\ response.code = 200
    /\ response.body.risk_category = "high"
    /\ AlertCount = 1

AlertFailed == LogRec("error", "Faculty alert failed") \in Range(log)

\* C13: an exception of send_faculty_alert never changes the prediction
\* response: the step in which the alert returns or raises leaves every
\* value the response is built from as it was and at most adds the log
\* record of the failure, and a request whose alert raised is answered 200
\* "success" with the prediction, category, confidence, attribution and
\* advice computed for it.
C13_AlertFailureHarmless ==
    /\ [][pc = "alerting" =>
            /\ pc' = "explain"
            /\ UNCHANGED <<response, calls, locals, request, artifacts>>
            /\ log' \in {log, Append(log, LogRec("error", "Faculty alert failed"))}]_vars
    /\ []((Done /\ AlertFailed) =>
            /\ response.code = 200
            /\ response.body.status = "success"
            /\ response.body.risk_category = "high"
            /\ response.body.prediction = EstimateGrade(predicted_risk_class, class_confidence)
            /\ response.body.confidence = class_confidence
            /\ response.body.shap_values = fallback_features
            /\ response.body.mentoring_advice.source \in {"mock", "gemini"}
            /\ response.body.mentoring_advice.template = "high")

\* the alert raised, the failure was logged and the request was answered 200
C13_Witness ==
    /\ Done
    /\ AlertFailed
    /\ AlertCount = 1
    /\ response.code = 200
    /\ response.body.prediction = 9

\* C14: the alert is fire-and-forget: while send_faculty_alert has been
\* invoked and has not completed, the handler goes on towards the response
\* by its own steps, so an alert that never returns does not hold it up.
C14_AlertFireAndForget == (pc = "alerting") => ENABLED HandlerStep

\* C15: a validated request is answered even if generate_content never
\* returns: while the call is outstanding the handler can still go on by a
\* step of its own (the timeout, after which the template advice is used).
C15_GenerationTimeBounded == (pc = "generating") => ENABLED HandlerStep

\* the cell of column f in the row handed to the classifier, as a number
CellNumber(f) == PyFloat(preprocessed_df[ColumnIndex(f)])

\* the conversion c succeeded and gave the fraction n / d
IsNumber(c, n, d) == c.exc = "none" /\ c.val.t = "float" /\ c.val.n * d = n * c.val.d

\* grade_change = G2 - G1 and average_grade = (G1 + G2) / 2 in the row
DerivedFromGrades(g1, g2) ==
    /\ IsNumber(CellNumber("grade_change"), g2.n * g1.d - g1.n * g2.d, g1.d * g2.d)
    /\ IsNumber(CellNumber("average_grade"), g1.n * g2.d + g2.n * g1.d, 2 * g1.d * g2.d)

\* C16: in every row that reaches the classifier grade_change = G2 - G1 and
\* average_grade = (G1 + G2) / 2 for the request's own G1 and G2, whatever
\* the caller supplied for the two fields, and a request that lacks only
\* these two fields still reaches the classifier.
C16_DerivedRecomputed ==
    (Loaded /\ IsObject /\ validation.exc = "none") =>
        /\ preprocessed_df # <<>> =>
               DerivedFromGrades(PyFloat(request.body.obj["G1"]).val,
                                 PyFloat(request.body.obj["G2"]).val)
        /\ (Done /\ Range(expected_columns) \ DerivedFields \subseteq DOMAIN request.body.obj) =>
               Called("predict")

\* the fixed texts a 500 response may carry, one per stage
GenericErrors ==
    {<<"An unexpected error occurred">>, <<"Data preprocessing error">>,
     <<"Data preprocessing failed">>, <<"Prediction failed">>,
     <<"Failed to build response">>}

\* C17: the error text of every 500 response is a fixed generic string: it
\* carries nothing of the underlying exception, so two requests that fail at
\* the same stage receive the same body.
C17_GenericServerError ==
    (Done /\ response.code = 500) =>
        /\ response.body.error \in GenericErrors
        /\ DOMAIN response.body = {"error", "status"}

\* C19: in every load state the process serves the health endpoints, and
\* they answer 200 with the true load state: /healthz with ok = true and
\* models_loaded true exactly when pipeline, label_encoder and risk_explainer
\* are all loaded, /status with one flag per artifact equal to whether it is
\* loaded.
C19_HealthHonest ==
    /\ pc = "idle" => (ENABLED Healthz /\ ENABLED Status)
    /\ (pc = "probed" /\ probe.endpoint = "/healthz") =>
          /\ probe.code = 200
          /\ probe.body.ok
          /\ probe.body.models_loaded <=> (pipeline /\ label_encoder /\ risk_explainer)
    /\ (pc = "probed" /\ probe.endpoint = "/status") =>
          /\ probe.code = 200
          /\ probe.body.pipeline <=> pipeline
          /\ probe.body.label_encoder <=> label_encoder
          /\ probe.body.risk_explainer <=> risk_explainer

\* /healthz answered with only the pipeline loaded
C19_Witness ==
    /\ pc = "probed"
    /\ probe.endpoint = "/healthz"
    /\ pipeline /\ ~risk_explainer /\ ~label_encoder
    /\ probe.code = 200
    /\ probe.body.ok
    /\ ~probe.body.models_loaded

\* the status each HTTP code goes with
StatusOf(code) ==
    CASE code = 200 -> "success"
      [] code = 400 -> "validation_error"
      [] code = 503 -> "service_unavailable"
      [] code = 500 -> "error"
      [] OTHER -> "none"

\* the request fails because of what the client sent: a body that is not
\* JSON, does not parse, is empty, or holds an invalid field
ClientInputFailure ==
    \/ ~request.is_json
    \/ request.body.kind \in {"malformed", "falsy"}
    \/ validation.exc \notin {"unset", "none"}

\* C18: in every response the HTTP code and the status field agree (200
\* success, 400 validation_error, 503 service_unavailable, 500 error), so no
\* 503 carries status "error", and every client input failure is answered
\* 400, never 500.
C18_CodeStatusAgree ==
    Done =>
        /\ response.code \in {200, 400, 500, 503}
        /\ response.body.status = StatusOf(response.code)
        /\ (Loaded /\ ClientInputFailure) => response.code = 400

\* ------------------------------------------------------------------------
\* C20: every list get_shap_feature_importance returns, computed or fallback,
\* in either application, has at most 5 entries in order of non-increasing
\* absolute importance; a computed list holds exactly the 5 columns whose
\* contributions for the predicted class are largest in absolute value.
\* ------------------------------------------------------------------------

NonIncreasingAbs(features) ==
    \A i \in 1..(Len(features) - 1) :
        Abs(features[i].importance) >= Abs(features[i + 1].importance)

ShapComputed ==
    /\ pc = "shap_done"
    /\ calls = <<"legacy_get_shap_feature_importance">>
    /\ risk_explainer
    /\ log = <<>>

\* v is the vector of contributions the list is computed from
LargestOf(features, v) ==
    \E kept \in SUBSET (1..Len(feature_names)) :
        /\ Cardinality(kept) = TopN
        /\ \A i \in kept : \A j \in (1..Len(feature_names)) \ kept :
               Abs(v[i]) >= Abs(v[j])
        /\ Len(features) = TopN
        /\ {features[k] : k \in 1..Len(features)}
               = {Feature(ReadableName(feature_names[i]), v[i]) : i \in kept}

IsPrefix(s, t) == Len(s) <= Len(t) /\ s = SubSeq(t, 1, Len(s))

\* the customPrompt of the request as validation sees it: str(value)
RawPrompt == PyStr(request.body.obj["customPrompt"])

C22_PromptChecked ==
    (pc = "prompt_done" /\ "customPrompt" \in DOMAIN request.body.obj) =>
        /\ (prompt # <<>> \/ mentoring_advice.text # <<>>) =>
               /\ Len(RawPrompt) <= MaxPromptLen
               /\ prompt \in {<<>>, Strip(BleachClean(RawPrompt))}
               /\ IsPrefix(mentoring_advice.text, Strip(BleachClean(RawPrompt)))
        /\ Len(RawPrompt) > MaxPromptLen =>
               /\ validation.exc = "ValueError"
               /\ prompt = <<>>
               /\ mentoring_advice = NoAdvice

\* the same, of the app alone
C22_AppPromptChecked ==
    calls = <<"generate_mentoring_advice">> => C22_PromptChecked

\* ------------------------------------------------------------------------
\* C24: for a record holding every expected field, whatever the order of its
\* keys and whatever other keys it has, the row has exactly the 34 expected
\* columns in the training order, each with the cell of its own field.
\* ------------------------------------------------------------------------

HasAllExpected == Range(expected_columns) \subseteq Range(request.body.keys)

C24_ExpectedColumnsInOrder ==
    (pc = "frame_done" /\ HasAllExpected) =>
        /\ preprocessed_df.exc = "none"
        /\ preprocessed_df.row.columns = expected_columns
        /\ Len(preprocessed_df.row.cells) = 34
        /\ \A i \in 1..Len(expected_columns) :
               preprocessed_df.row.cells[i]
                   = IF expected_columns[i] \in Range(categorical_cols)
                     THEN EncodeCell(expected_columns[i],
                                     request.body.obj[expected_columns[i]])
                     ELSE request.body.obj[expected_columns[i]]

\* the keys came in reverse order behind two extra keys, and the row is built
C24_Witness ==
    /\ pc = "frame_done"
    /\ request.body.keys = <<"student_id", "G3">> \o Reversed(expected_columns)
    /\ preprocessed_df.exc = "none"
    /\ preprocessed_df.row.cells[1] = IntV(0)
    /\ preprocessed_df.row.cells[34] = StrV(<<"2", ".", "0">>)

\* ------------------------------------------------------------------------
\* C25: a request gets one terminal response; the stages validation,
\* encoding, classification, explanation and advice composition run at most
\* once each and in that order, none after the response, and a 200 response
\* comes only after all of them.
\* ------------------------------------------------------------------------

StageOrder ==
    <<"validate_student_data", "preprocess_data_for_pipeline", "predict",
      "predict_proba", "get_shap_feature_importance">>

\* the stages entered so far for the request being served, in order
StagesRun == SelectSeq(calls, LAMBDA c : c \in Range(StageOrder))

StageStep ==
    \/ Validate
    \/ Preprocess
    \/ Predict
    \/ Confidence
    \/ Grade
    \/ Alert
    \/ AlertReturn
    \/ Explain
    \/ Advise
    \/ GenerateReturn
    \/ BuildResponse

C25_StagesInOrder ==
    /\ IsPrefix(StagesRun, StageOrder)
    /\ (response # NoResponse) <=> Done
    /\ Done => ~ENABLED StageStep
    /\ mentoring_advice # NoAdvice => StagesRun = StageOrder
    /\ (Done /\ response.code = 200) =>
           /\ StagesRun = StageOrder
           /\ validation.exc = "none"
           /\ preprocessed_df # <<>>
           /\ predicted_risk_class \in Classes
           /\ top_features # <<>>
           /\ mentoring_advice # NoAdvice
           /\ response.body.mentoring_advice = mentoring_advice

\* a High prediction answered 200 after the alert and the generation call
C25_Witness ==
    /\ Done
    /\ response.code = 200
    /\ calls = <<"validate_student_data", "preprocess_data_for_pipeline", "predict",
                 "predict_proba", "send_faculty_alert",
                 "get_shap_feature_importance", "generate_content">>

\* ------------------------------------------------------------------------
\* C27: a static attribution list is returned only when the computation is
\* switched off or has thrown or the explainer is missing, and never without
\* a log record of the degradation written before the function returns; with
\* the explainer loaded and the computation on, the list is computed from the
\* row.
\* ------------------------------------------------------------------------

StaticLists == {fallback_features, legacy_static_features, legacy_error_features}

DegradationMessages ==
    {"SHAP explainer not loaded, using fallback features",
     "Skipping SHAP calculation", "SHAP calculation error"}

DegradationLogged == \E i \in 1..Len(log) : log[i].msg \in DegradationMessages

GradesOf(c) == grade_ranges(c)[1]..grade_ranges(c)[2]

\* the confidences n / d with d up to 10, and the one the handler holds
Confidences == {Frac(n, d) : n \in 0..10, d \in 1..10} \cup {class_confidence}

C28_ClassTablesAgree ==
    /\ predicted_g3 # -1 =>
           map_risk_category(predicted_g3)[1] = risk_category
    /\ (pc = "alert") =>
           /\ \A c \in Classes :
                 /\ \A conf \in Confidences :
                       conf.n <= conf.d =>
                           map_risk_category(EstimateGrade(c, conf))[1] = risk_mapping(c)
                 /\ lower(proba_map(c)) = risk_mapping(c)
           /\ \A c, d \in Classes : c # d => GradesOf(c) \cap GradesOf(d) = {}
           /\ UNION {GradesOf(c) : c \in Classes} = 0..20

\* class Low at confidence 0 is estimated at 14, the bottom of its range
C28_Witness ==
    /\ pc = "alert"
    /\ predicted_risk_class = 1
    /\ class_confidence = Frac(0, ConfScale)
    /\ predicted_g3 = 14
    /\ risk_category = "low"

\* ------------------------------------------------------------------------
\* C29: the artifacts are loaded in the order pipeline, risk_explainer,
\* label_encoder inside one try block, so the loaded ones are always a prefix
\* of that order; /healthz reports models_loaded false exactly in the load
\* states where /api/predict answers 503; a request that has passed the 503
\* gate finds the explainer loaded.
\* ------------------------------------------------------------------------

PastGate ==
    \/ pc \in {"validate", "preprocess", "predict", "confidence", "grade", "alert",
               "alerting", "explain", "advice", "generating", "respond"}
    \/ Done /\ response.code # 503

C29_LoadPrefix ==
    (pc \in {"boot", "idle", "gate", "probed", "done"} \cup
            {"validate", "preprocess", "predict", "confidence", "grade", "alert",
             "alerting", "explain", "advice", "generating", "respond"}) =>
        /\ label_encoder => risk_explainer
        /\ risk_explainer => pipeline
        /\ pc # "boot" =>
              (~healthz(pipeline, label_encoder, risk_explainer).models_loaded
                   <=> ModelsMissing(pipeline, label_encoder))
        /\ (pc = "probed" /\ probe.endpoint = "/healthz") =>
              (~probe.body.models_loaded <=> ModelsMissing(pipeline, label_encoder))
        /\ Done => (response.code = 503 <=> ModelsMissing(pipeline, label_encoder))
        /\ PastGate => risk_explainer
        /\ Called("get_shap_feature_importance") =>
              \E i \in 1..Len(log) : log[i] = LogRec("info", "Skipping SHAP calculation")

\* the load stopped at the encoding table: /healthz says the models are not
\* loaded
C29_Witness ==
    /\ pc = "probed"
    /\ probe.endpoint = "/healthz"
    /\ pipeline /\ risk_explainer /\ ~label_encoder
    /\ ~probe.body.models_loaded

\* ------------------------------------------------------------------------
\* C30: in src/app the shap_values of a success response do not depend on the
\* request: the explanation step yields the same five pairs for every row,
\* every predicted class and every load state, so all requests that reach
\* the explanation step are answered with the same shap_values.
\* ------------------------------------------------------------------------

C30_ShapSameForAll ==
    /\ (Called("get_shap_feature_importance") /\ pc \in {"advice", "generating", "respond", "done"}) =>
          /\ top_features = fallback_features
          /\ Len(top_features) = 5
    /\ (Done /\ response.code = 200) =>
          /\ response.body.shap_values = fallback_features
          /\ \A i \in 1..5 :
                response.body.shap_values[i] \in
                    {Feature("G2 Grade", 85), Feature("Failures", 65),
                     Feature("Study Time", 42), Feature("Absences", -38),
                     Feature("Family Relation", 30)}

\* a Low prediction made with all three artifacts loaded carries the list
C30_Witness ==
    /\ Done
    /\ response.code = 200
    /\ risk_explainer
    /\ predicted_risk_class = 1
    /\ response.body.shap_values[1] = Feature("G2 Grade", 85)
    /\ response.body.shap_values[5] = Feature("Family Relation", 30)

\* ------------------------------------------------------------------------
\* Two request threads over the same loaded artifacts
\*
\* The server runs predict_risk in one thread per request.  The variables of
\* the handler are the frame of the thread that is running; parked is the
\* frame of the other thread.  The scheduler may switch between the two after
\* any step.  The loaded pipeline is a fixed function of the row.
\* ------------------------------------------------------------------------

\* what pipeline.predict and pipeline.predict_proba answer for a row: a class
\* id (-1: predict raises) and a probability vector (<<>>: predict_proba
\* raises)
Answer(cls, proba) == [cls |-> cls, proba |-> proba]

Answers == {Answer(-1, <<>>), Answer(0, <<>>), Answer(1, <<0, 2, 0>>)}

\* the fixture, the fixture with another G2, the fixture with another
\* customPrompt (the same row) and the fixture with G1 out of range
ConcRequests ==
    {Request(TRUE, Body("object", Apply(sample_student_data, cs))) :
        cs \in {{}, {Change("G2", FALSE, StrV(<<"1", "5">>))},
                {Change("customPrompt", FALSE, StrV(<<"h", "i">>))},
                {Change("G1", FALSE, StrV(<<"2", "5">>))}}}

\* the rows these requests are encoded to
ConcRows ==
    {PreprocessStep(ValidationStep(r).obj, TRUE).row :
        r \in {q \in ConcRequests : ValidationStep(q).code = 0}}

\* the local variables of one invocation of predict_risk
ThreadFrame(p, req, resp, cs, lg, loc) ==
    [pc |-> p, request |-> req, response |-> resp, calls |-> cs, log |-> lg,
     locals |-> loc]

IdleFrame ==
    ThreadFrame("idle", NoRequest, NoResponse, <<>>, <<>>,
                <<NoObject, NotValidated, <<>>, -1, <<>>, Frac(0, 1), -1, "none",
                  "none", <<>>, NoAdvice>>)

ConcInit ==
    /\ pipeline = FALSE
    /\ risk_explainer = FALSE
    /\ label_encoder = FALSE
    /\ USE_MOCK_MODE = FALSE
    /\ gemini_model = FALSE
    /\ pc = "boot"
    /\ request = NoRequest
    /\ response = NoResponse
    /\ calls = <<>>
    /\ log = <<>>
    /\ probe = NoProbe
    /\ explainer_values = NoExplainerOutput
    /\ prompt = <<>>
    /\ classifier \in [ConcRows -> Answers]
    /\ parked = IdleFrame
    /\ Fresh

ConcReceive ==
    /\ pc = "idle"
    /\ \E r \in ConcRequests : request' = r
    /\ pc' = "gate"
    /\ UNCHANGED <<artifacts, aside, probe, response, calls, log, locals>>

DetPredict_unseeded == Predict

\* pipeline.predict(preprocessed_df)[0] of the loaded pipeline
DetPredict ==
    /\ Predict
    /\ IF classifier[preprocessed_df].cls = -1
       THEN pc' = "done"
       ELSE predicted_risk_class' = classifier[preprocessed_df].cls

\* pipeline.predict_proba(preprocessed_df)[0] of the loaded pipeline
DetConfidence ==
    /\ Confidence
    /\ probabilities' = classifier[preprocessed_df].proba

Resumed_shared_data == [parked EXCEPT !.locals[1] = data]

\* the frame the scheduler resumes
Resumed == parked

\* the running thread is suspended and the other one resumed
Switch ==
    /\ pc # "boot"
    /\ parked' = ThreadFrame(pc, request, response, calls, log, locals)
    /\ pc' = Resumed.pc
    /\ request' = Resumed.request
    /\ response' = Resumed.response
    /\ calls' = Resumed.calls
    /\ log' = Resumed.log
    /\ data' = Resumed.locals[1]
    /\ validation' = Resumed.locals[2]
    /\ preprocessed_df' = Resumed.locals[3]
    /\ predicted_risk_class' = Resumed.locals[4]
    /\ probabilities' = Resumed.locals[5]
    /\ class_confidence' = Resumed.locals[6]
    /\ predicted_g3' = Resumed.locals[7]
    /\ risk_category' = Resumed.locals[8]
    /\ risk_descriptor' = Resumed.locals[9]
    /\ top_features' = Resumed.locals[10]
    /\ mentoring_advice' = Resumed.locals[11]
    /\ UNCHANGED <<artifacts, probe, explainer_values, prompt, classifier>>

ConcNext ==
    \/ LoadModels
    \/ ConcReceive
    \/ CheckModels
    \/ Validate
    \/ Preprocess
    \/ DetPredict
    \/ DetConfidence
    \/ Grade
    \/ Alert
    \/ AlertReturn
    \/ Explain
    \/ Advise
    \/ GenerateReturn
    \/ BuildResponse
    \/ Finish
    \/ Switch

ConcSpec == ConcInit /\ [][ConcNext]_vars

\* ------------------------------------------------------------------------
\* C21: the prediction is a function of the request body and the loaded
\* artifacts.  Two requests with identical bodies, served by either thread at
\* any point of any sequence of requests, are answered with the same code
\* and, when served, with the same risk_category, confidence, prediction and
\* shap_values.
\* ------------------------------------------------------------------------

BothDone == pc = "done" /\ parked.pc = "done"

AloneSuccess(obj, cls, conf, outcome) ==
    [code |-> 200,
     body |-> [prediction       |-> EstimateGrade(cls, conf),
               risk_category    |-> risk_mapping(cls),
               risk_descriptor  |-> map_risk_category(EstimateGrade(cls, conf))[2],
               confidence       |-> conf,
               probabilities    |-> classifier[PreprocessStep(obj, label_encoder).row].proba,
               shap_values      |-> get_shap_feature_importance(risk_explainer).features,
               mentoring_advice |->
                   generate_mentoring_advice(obj, EstimateGrade(cls, conf),
                                             risk_mapping(cls), USE_MOCK_MODE,
                                             gemini_model, outcome).advice,
               status           |-> "success"]]

\* step 3 onward for the answer a of the pipeline
AloneClassified(obj, a, outcome) ==
    IF a.cls = -1
    THEN [code |-> 500, body |-> ErrorBody(<<"Prediction failed">>, "error")]
    ELSE AloneSuccess(obj, a.cls,
                      IF a.proba = <<>> THEN Frac(1, 2)
                      ELSE Frac(a.proba[a.cls + 1], ConfScale),
                      outcome)

\* step 2 onward for the validated object obj, p the outcome of step 2
AloneEncoded(obj, p, outcome) ==
    IF p.code # 0
    THEN [code |-> p.code, body |-> p.body]
    ELSE AloneClassified(obj, classifier[p.row], outcome)

\* step 1 onward, v the outcome of step 1
AloneValidated(v, outcome) ==
    IF v.code # 0
    THEN [code |-> v.code, body |-> v.body]
    ELSE AloneEncoded(v.obj, PreprocessStep(v.obj, label_encoder), outcome)

\* the answer to req of a server that serves nothing else; outcome is what
\* generate_content does if it is called
ServedAlone(req, outcome) ==
    IF ModelsMissing(pipeline, label_encoder)
    THEN [code |-> 503, body |-> [status |-> "service_unavailable"]]
    ELSE AloneValidated(ValidationStep(req), outcome)

AnsweredAsAlone(req, resp) ==
    \E outcome \in {"text", "empty", "raise"} :
        /\ resp.code = ServedAlone(req, outcome).code
        /\ resp.code # 503 => resp.body = ServedAlone(req, outcome).body

\* the frame holds the data of its own request
OwnData(req, obj, p) ==
    (p \in {"preprocess", "predict", "confidence", "grade", "alert", "alerting",
            "explain", "advice", "generating", "respond"}) =>
        obj = ValidationStep(req).obj

C26_Independent ==
    /\ [](/\ pc = "done" => AnsweredAsAlone(request, response)
          /\ (pc # "boot" /\ parked.pc = "done") =>
                 AnsweredAsAlone(parked.request, parked.response)
          /\ OwnData(request, data, pc)
          /\ pc # "boot" => OwnData(parked.request, parked.locals[1], parked.pc))
    /\ [][pc # "boot" => UNCHANGED <<pipeline, risk_explainer, label_encoder, classifier>>]_vars

\* two different bodies were in the handler at once and both were served
C26_Witness ==
    /\ BothDone
    /\ request.body # parked.request.body
    /\ response.code = 200
    /\ parked.response.code = 200
    /\ response.body.prediction # parked.response.body.prediction

====
